---------------------------- MODULE Spec2Model ----------------------------
(***************************************************************************)
(* A model of the Hill/faststore core: the OLFIT index (a right-linked     *)
(* B+-tree with version locks), the page allocator and the logger's slot   *)
(* table.                                                                  *)
(*                                                                         *)
(* The index's descent (find_next, traverse_node_no_tracing), move_right   *)
(* and update_highkeys are translated from src/unnamed/part_000.  The      *)
(* bodies of OLFIT::insert, OLFIT::search, LeafNode::insert,               *)
(* InnerNode::insert, split_leaf, split_inner and push_up are not in the   *)
(* source tree (only their declarations are); they follow spec.md 4.E.     *)
(* The allocator is translated from src/unnamed/part_002 and               *)
(* memory_manager.hpp.  Logger::register_thread is declared in wal.hpp     *)
(* only and follows spec.md 4.C.                                           *)
(***************************************************************************)
EXTENDS Integers, Sequences, FiniteSets, TLC

VARIABLES
    node,       \* the node arena: node[id], a record per LeafNode / InnerNode
    root,       \* OLFIT::root
    th,         \* per thread: the position inside insert / search and its locals
    stored,     \* history: key -> value of the first insert of the key that returned Ok
    dup,        \* history: the keys insert was called with again after an Ok
    regions,    \* LogRegions::regions: per thread, the entries below the cursor
    replayed,   \* history: the entries LogRegion::recover handed to the action
    log,        \* the LogRegions in PM: magic, and per region checkpointed, cursor, entries
    logrec,     \* history: whether the last logger call was a recovery, and its visits
    ctor        \* the call of OLFIT::OLFIT under way: its position, ptr and root

wvars == <<regions, replayed, log, logrec, ctor>>

ivars == <<node, root, th, stored, dup, regions, replayed, log, logrec, ctor>>

VARIABLES
    hdr,        \* Allocator::header
    page,       \* the pages of the region: header.records, header.cursor, next
    in_use,     \* Logger::in_use
    client,     \* per client thread: the slot ids the two registrations returned
    lastCall,   \* history: the last allocator call and what it returned
    live        \* history: the blocks allocate handed out that were not freed since

avars == <<hdr, page, in_use, client, lastCall, live>>

VARIABLES
    pointer,    \* the last pointer built: its inputs and its 64 bits
    word,       \* VersionLock::l of one lock
    lk          \* per thread: where it is inside lock / try_lock, and its locals

ovars == <<pointer, word, lk>>

vars == <<node, root, th, stored, dup, regions, replayed, log, logrec, ctor,
          hdr, page, in_use, client, lastCall, live, pointer, word, lk>>

NULL == 0
NullVal == <<>>

-----------------------------------------------------------------------------
(* Bounds *)

MaxKey == 5
MaxSeqKey == 3
MaxOps == 4
MaxSlots == 2
NumClients == 2
NumPages == 8
MaxPrealloc == 2
MaxCalls == 8
NumLockers == 3     \* threads contending for one VersionLock
MaxWord == 6        \* no call starts once the lock word has reached this
MaxDeepKey == 7     \* the keys of the three-level scenario
MaxSmall == 262     \* the calls of the thread that takes small blocks
MaxLog == 3         \* the entries of a log region

Keys == 1..MaxKey
SeqKeys == {k \in Keys : k <= MaxSeqKey}
Values == {<<7>>, <<8, 9>>}
Threads == {1, 2}
Clients == 1..NumClients

-----------------------------------------------------------------------------
(* Indexing::Constants *)

iDEGREE == 3
iNUM_HIGHKEY == iDEGREE - 1

KeySlots == 1..iNUM_HIGHKEY
ChildSlots == 1..iDEGREE

-----------------------------------------------------------------------------
(* Arrays with trailing nulls *)

Pad(s, n, null) == s \o [i \in 1..(n - Len(s)) |-> null]

Compact(arr) == SelectSeq(arr, LAMBDA x : x # NULL)

InsertAt(s, pos, x) == SubSeq(s, 1, pos - 1) \o <<x>> \o SubSeq(s, pos, Len(s))

\* the number of keys of ks that are smaller than k
Below(ks, k) == Cardinality({i \in 1..Len(ks) : ks[i] < k})

CeilHalf(n) == (n + 1) \div 2

-----------------------------------------------------------------------------
(* Nodes *)

make_leaf ==
    [kind |-> "Leaf", parent |-> NULL, highkey |-> NULL,
     keys |-> [i \in KeySlots |-> NULL],
     values |-> [i \in KeySlots |-> NullVal],
     value_sizes |-> [i \in KeySlots |-> 0],
     children |-> [i \in ChildSlots |-> NULL],
     right_link |-> NULL, version_lock |-> 0]

make_inner ==
    [kind |-> "Inner", parent |-> NULL, highkey |-> NULL,
     keys |-> [i \in KeySlots |-> NULL],
     values |-> [i \in KeySlots |-> NullVal],
     value_sizes |-> [i \in KeySlots |-> 0],
     children |-> [i \in ChildSlots |-> NULL],
     right_link |-> NULL, version_lock |-> 0]

is_leaf(nd, n) == nd[n].kind = "Leaf"

\* a wrong variant of is_full: the last slot is never used
is_full_one_early(nd, n) == nd[n].keys[iNUM_HIGHKEY - 1] # NULL

is_full(nd, n) == nd[n].keys[iNUM_HIGHKEY] # NULL

is_locked(nd, n) == nd[n].version_lock % 2 = 1

\* VersionLock::lock succeeds only from an even word; VersionLock::unlock adds 1
lock(nd, n) == [nd EXCEPT ![n].version_lock = @ + 1]

unlock(nd, n) == [nd EXCEPT ![n].version_lock = @ + 1]

-----------------------------------------------------------------------------
(* The descent *)

\* hill_key_t::compare of the node's highkey with k, as the sign find_next
\* tests.  find_next calls it without a null check: on a null highkey the
\* call is undefined, and the build may fault or yield any sign.
HighkeyCompare(nd, n, k) ==
    IF nd[n].highkey = NULL THEN {"crash", "lt", "eq", "gt"}
    ELSE IF nd[n].highkey = k THEN {"eq"}
    ELSE IF nd[n].highkey > k THEN {"gt"}
    ELSE {"lt"}

RightmostChild(nd, n) ==
    LET used == {i \in ChildSlots : nd[n].children[i] # NULL}
        i == CHOOSE j \in used : \A l \in used : l <= j
    IN  nd[n].children[i]

\* a wrong variant of find_next: the key slots tested with >= instead of >
find_next_ge(nd, n, k, result) ==
    IF result = "eq" THEN RightmostChild(nd, n)
    ELSE IF result = "gt" THEN
        LET hit == {i \in KeySlots : nd[n].keys[i] = NULL \/ nd[n].keys[i] >= k}
        IN  IF hit = {} THEN nd[n].children[iDEGREE]
            ELSE nd[n].children[CHOOSE i \in hit : \A j \in hit : i <= j]
    ELSE IF nd[n].right_link # NULL THEN nd[n].right_link
    ELSE RightmostChild(nd, n)

\* find_next after the comparison has given result
find_next(nd, n, k, result) ==
    IF result = "eq" THEN RightmostChild(nd, n)
    ELSE IF result = "gt" THEN
        LET hit == {i \in KeySlots : nd[n].keys[i] = NULL \/ nd[n].keys[i] > k}
        IN  IF hit = {} THEN nd[n].children[iDEGREE]
            ELSE nd[n].children[CHOOSE i \in hit : \A j \in hit : i <= j]
    ELSE IF nd[n].right_link # NULL THEN nd[n].right_link
    ELSE RightmostChild(nd, n)

\* find_next_no_tracing: the same statements as find_next
find_next_no_tracing(nd, n, k, result) ==
    IF result = "eq" THEN RightmostChild(nd, n)
    ELSE IF result = "gt" THEN
        LET hit == {i \in KeySlots : nd[n].keys[i] = NULL \/ nd[n].keys[i] > k}
        IN  IF hit = {} THEN nd[n].children[iDEGREE]
            ELSE nd[n].children[CHOOSE i \in hit : \A j \in hit : i <= j]
    ELSE IF nd[n].right_link # NULL THEN nd[n].right_link
    ELSE RightmostChild(nd, n)

\* what a descent gives: the leaf, or undefined once it has gone through null
Reached(leaf) == [leaf |-> leaf, undefined |-> FALSE]
Undefined == [leaf |-> NULL, undefined |-> TRUE]

\* traverse_node_no_tracing from cur, for as long as the behaviour is defined;
\* fuel bounds the turns of the loop
RECURSIVE descend_no_tracing(_, _, _, _)
descend_no_tracing(nd, cur, k, fuel) ==
    IF nd[cur].kind = "Leaf" THEN Reached(cur)
    ELSE IF nd[cur].highkey = NULL \/ fuel = 0 THEN Undefined
    ELSE descend_no_tracing(
             nd,
             find_next_no_tracing(nd, cur, k,
                                  CHOOSE r \in HighkeyCompare(nd, cur, k) : TRUE),
             k, fuel - 1)

traverse_node_no_tracing(nd, rt, k) == descend_no_tracing(nd, rt, k, Len(nd))

\* traverse_node: the log line of every turn calls to_string on the inner
\* node's highkey, the one after the loop on the leaf's
RECURSIVE descend_tracing(_, _, _, _)
descend_tracing(nd, cur, k, fuel) ==
    IF nd[cur].kind = "Leaf"
    THEN IF nd[cur].highkey = NULL THEN Undefined ELSE Reached(cur)
    ELSE IF nd[cur].highkey = NULL \/ fuel = 0 THEN Undefined
    ELSE descend_tracing(
             nd,
             find_next(nd, cur, k, CHOOSE r \in HighkeyCompare(nd, cur, k) : TRUE),
             k, fuel - 1)

traverse_node(nd, rt, k) ==
    IF nd[rt].kind = "Leaf" THEN Reached(rt)
    ELSE descend_tracing(nd, rt, k, Len(nd))

-----------------------------------------------------------------------------
(* Leaves and inner nodes: insert and split (spec.md 4.E) *)

KeysOf(nd, n) == Compact(nd[n].keys)

ChildrenOf(nd, n) == Compact(nd[n].children)

\* a leaf record with (k, v) placed in key order, the tail shifted right
PlaceInLeaf(rec, k, v) ==
    LET ks  == Compact(rec.keys)
        pos == Below(ks, k) + 1
    IN  [rec EXCEPT
            !.keys = Pad(InsertAt(ks, pos, k), iNUM_HIGHKEY, NULL),
            !.values = Pad(InsertAt(SubSeq(rec.values, 1, Len(ks)), pos, v),
                           iNUM_HIGHKEY, NullVal),
            !.value_sizes = Pad(InsertAt(SubSeq(rec.value_sizes, 1, Len(ks)), pos, Len(v)),
                                iNUM_HIGHKEY, 0)]

\* LeafNode::insert: the status, and the leaf afterwards
LeafInsertStatus(nd, n, k) ==
    IF \E i \in KeySlots : nd[n].keys[i] = k THEN "RepeatInsert"
    ELSE IF is_full(nd, n) THEN "NeedSplit"
    ELSE "Ok"

LeafNode_insert(nd, n, k, v) == [nd EXCEPT ![n] = PlaceInLeaf(@, k, v)]

\* the median index of a split, and the key a split of leaf l leaves as its highkey
MedianIndex == CeilHalf(iDEGREE - 1)

MedianKey(nd, l) == KeysOf(nd, l)[MedianIndex]

\* split_leaf steps 2-6: the new leaf takes the id Len(nd) + 1
split_leaf(nd, l, k, v) ==
    LET ks     == KeysOf(nd, l)
        n      == Len(ks)
        m      == MedianIndex
        median == ks[m]
        new    == Len(nd) + 1
        left0  == [nd[l] EXCEPT
                     !.keys = Pad(SubSeq(ks, 1, m), iNUM_HIGHKEY, NULL),
                     !.values = Pad(SubSeq(nd[l].values, 1, m), iNUM_HIGHKEY, NullVal),
                     !.value_sizes = Pad(SubSeq(nd[l].value_sizes, 1, m), iNUM_HIGHKEY, 0)]
        right0 == [make_leaf EXCEPT
                     !.keys = Pad(SubSeq(ks, m + 1, n), iNUM_HIGHKEY, NULL),
                     !.values = Pad(SubSeq(nd[l].values, m + 1, n), iNUM_HIGHKEY, NullVal),
                     !.value_sizes = Pad(SubSeq(nd[l].value_sizes, m + 1, n), iNUM_HIGHKEY, 0)]
        left1  == IF k < median THEN PlaceInLeaf(left0, k, v) ELSE left0
        right1 == IF k < median THEN right0 ELSE PlaceInLeaf(right0, k, v)
        right  == [right1 EXCEPT !.right_link = nd[l].right_link,
                                 !.highkey = nd[l].highkey,
                                 !.parent = nd[l].parent]
        left   == [left1 EXCEPT !.highkey = median, !.right_link = new]
    IN  Append([nd EXCEPT ![l] = left], right)

\* push_up with a null parent: a new root over the old root and the new node
new_root(nd, rt, skey, new) ==
    LET id == Len(nd) + 1
        r  == [make_inner EXCEPT
                 !.keys = Pad(<<skey>>, iNUM_HIGHKEY, NULL),
                 !.children = Pad(<<rt, new>>, iDEGREE, NULL),
                 !.highkey = nd[new].highkey]
    IN  Append([nd EXCEPT ![rt].parent = id, ![new].parent = id], r)

\* the keys and children of p with (skey, child) added, child right of skey
WithKey(nd, p, skey) == InsertAt(KeysOf(nd, p), Below(KeysOf(nd, p), skey) + 1, skey)

WithChild(nd, p, skey, child) ==
    InsertAt(ChildrenOf(nd, p), Below(KeysOf(nd, p), skey) + 2, child)

\* InnerNode::insert into a node with room
InnerNode_insert(nd, p, skey, child) ==
    LET last == Below(KeysOf(nd, p), skey) = Len(KeysOf(nd, p))
    IN  [nd EXCEPT
            ![p].keys = Pad(WithKey(nd, p, skey), iNUM_HIGHKEY, NULL),
            ![p].children = Pad(WithChild(nd, p, skey, child), iDEGREE, NULL),
            ![p].highkey = IF last THEN nd[child].highkey ELSE @,
            ![child].parent = p]

\* split_inner: the middle key is promoted, the new inner node takes id Len(nd) + 1
PromotedKey(nd, p, skey) == WithKey(nd, p, skey)[MedianIndex + 1]

split_inner(nd, p, skey, child) ==
    LET tk    == WithKey(nd, p, skey)
        tc    == WithChild(nd, p, skey, child)
        m     == MedianIndex
        new   == Len(nd) + 1
        moved == {tc[i] : i \in (m + 2)..Len(tc)}
        left  == [nd[p] EXCEPT
                    !.keys = Pad(SubSeq(tk, 1, m), iNUM_HIGHKEY, NULL),
                    !.children = Pad(SubSeq(tc, 1, m + 1), iDEGREE, NULL),
                    !.highkey = tk[m + 1],
                    !.right_link = new]
        right == [make_inner EXCEPT
                    !.keys = Pad(SubSeq(tk, m + 2, Len(tk)), iNUM_HIGHKEY, NULL),
                    !.children = Pad(SubSeq(tc, m + 2, Len(tc)), iDEGREE, NULL),
                    !.highkey = nd[p].highkey,
                    !.right_link = nd[p].right_link,
                    !.parent = nd[p].parent]
        nd1   == [i \in DOMAIN nd |->
                    IF i = p THEN left
                    ELSE IF i \in moved THEN [nd[i] EXCEPT !.parent = new]
                    ELSE IF i = child THEN [nd[i] EXCEPT !.parent = p]
                    ELSE nd[i]]
    IN  Append(nd1, right)

-----------------------------------------------------------------------------
(* Threads: OLFIT::insert and OLFIT::search, one step per shared access *)

NoRet == [status |-> "None", ptr |-> NullVal, size |-> 0]

Idle ==
    [pc |-> "idle", op |-> "none", k |-> NULL, v |-> NullVal,
     cur |-> NULL,      \* the node of the descent, then the locked leaf
     new |-> NULL,      \* push_up: the node to hand to the parent
     nl |-> NULL,       \* the leaf split_leaf made
     skey |-> NULL,     \* push_up: the split key
     par |-> NULL,      \* push_up: the parent
     hk |-> NULL,       \* update_highkeys: current
     hpar |-> NULL,     \* update_highkeys: parent
     version |-> 0,     \* the descent: the version read before find_next
     next |-> NULL,     \* the descent: what find_next returned
     odd |-> FALSE,     \* history: the word of that first read had bit 0 set
     had |-> {},        \* history: the keys of the leaf when split_leaf began
     moved |-> 0,       \* history: the siblings move_right went to in this call
     ret |-> NoRet,     \* what the last call returned
     expect |-> NullVal,\* history: stored[k] when the call started
     quiet |-> FALSE,   \* history: the search started after every insert had returned
     nops |-> 0]

Crashed == \E t \in Threads : th[t].pc = "crashed"

\* every thread has inserted all of its keys and is back from the call
OwnKeys(t) == {k \in Keys : k % 2 = t % 2}

AllInserted == \A k \in Keys : stored[k] # NullVal

Return(t, status, ptr, size) ==
    [th[t] EXCEPT !.pc = "idle", !.cur = NULL, !.new = NULL, !.nl = NULL,
                  !.version = 0, !.next = NULL, !.odd = FALSE, !.had = {},
                  !.moved = 0,
                  !.skey = NULL, !.par = NULL, !.hk = NULL, !.hpar = NULL,
                  !.ret = [status |-> status, ptr |-> ptr, size |-> size]]

\* WAL: make_log appends an Uncommitted entry, commit marks the last one
LogEntry(op, k, status) == [op |-> op, k |-> k, status |-> status]

make_log(rg, t, op, k) ==
    [rg EXCEPT ![t] = Append(@, LogEntry(op, k, "Uncommitted"))]

commit(rg, t) == [rg EXCEPT ![t][Len(rg[t])].status = "Committed"]

\* a record opened and committed around one mutation
Logged(rg, t, op, k) == commit(make_log(rg, t, op, k), t)

\* LogRegions::make_regions: every region empty
make_regions == [t \in Threads |-> <<>>]

StartInsert(t, k, v) ==
    /\ ~Crashed
    /\ UNCHANGED avars
    /\ UNCHANGED ovars
    /\ UNCHANGED wvars
    /\ th[t].pc = "idle"
    /\ th[t].nops < MaxOps
    /\ th' = [th EXCEPT ![t] = [Idle EXCEPT !.pc = "descend", !.op = "insert",
                                            !.k = k, !.v = v, !.cur = root,
                                            !.expect = stored[k],
                                            !.nops = th[t].nops + 1]]
    /\ dup' = IF stored[k] # NullVal THEN dup \cup {k} ELSE dup
    /\ UNCHANGED <<node, root, stored>>

StartSearch(t, k) ==
    /\ ~Crashed
    /\ UNCHANGED avars
    /\ UNCHANGED ovars
    /\ UNCHANGED wvars
    /\ th[t].pc = "idle"
    /\ th' = [th EXCEPT ![t] = [Idle EXCEPT !.pc = "descend", !.op = "search",
                                            !.k = k, !.cur = root,
                                            !.expect = stored[k],
                                            !.quiet = AllInserted,
                                            !.nops = th[t].nops]]
    /\ UNCHANGED <<node, root, stored, dup>>

\* traverse_node_no_tracing: one turn of the loop.  The two version reads and
\* find_next between them are one step here, so the versions always agree.
Descend(t) ==
    /\ ~Crashed
    /\ UNCHANGED avars
    /\ UNCHANGED ovars
    /\ UNCHANGED wvars
    /\ th[t].pc = "descend"
    /\ IF is_leaf(node, th[t].cur)
       THEN th' = [th EXCEPT ![t].pc = IF th[t].op = "insert" THEN "lock" ELSE "scan"]
       ELSE \E r \in HighkeyCompare(node, th[t].cur, th[t].k) :
              IF r = "crash"
              THEN th' = [th EXCEPT ![t].pc = "crashed",
                                    ![t].ret = [NoRet EXCEPT !.status = "Crash"]]
              ELSE th' = [th EXCEPT ![t].cur = find_next(node, th[t].cur, th[t].k, r)]
    /\ UNCHANGED <<node, root, stored, dup>>

\* VersionLock::version
version(w) == w \div 2

\* the loop of traverse_node_no_tracing with every shared read its own step:
\* the loop test and the first version read
ReadVersion(t) ==
    /\ ~Crashed
    /\ UNCHANGED avars
    /\ UNCHANGED ovars
    /\ UNCHANGED wvars
    /\ th[t].pc = "descend"
    /\ IF is_leaf(node, th[t].cur)
       THEN th' = [th EXCEPT ![t].pc = IF th[t].op = "insert" THEN "lock" ELSE "scan"]
       ELSE th' = [th EXCEPT ![t].pc = "select",
                             ![t].version = version(node[th[t].cur].version_lock),
                             ![t].odd = is_locked(node, th[t].cur)]
    /\ UNCHANGED <<node, root, stored, dup>>

\* next = find_next_no_tracing(inner, k, k_sz)
SelectChild(t) ==
    /\ ~Crashed
    /\ UNCHANGED avars
    /\ UNCHANGED ovars
    /\ UNCHANGED wvars
    /\ th[t].pc = "select"
    /\ \E r \in HighkeyCompare(node, th[t].cur, th[t].k) :
         IF r = "crash"
         THEN th' = [th EXCEPT ![t].pc = "crashed",
                               ![t].ret = [NoRet EXCEPT !.status = "Crash"]]
         ELSE th' = [th EXCEPT ![t].pc = "recheck",
                               ![t].next = find_next_no_tracing(node, th[t].cur,
                                                                th[t].k, r)]
    /\ UNCHANGED <<node, root, stored, dup>>

\* if (inner->version_lock.version() == version) current = next
Recheck(t) ==
    /\ ~Crashed
    /\ UNCHANGED avars
    /\ UNCHANGED ovars
    /\ UNCHANGED wvars
    /\ th[t].pc = "recheck"
    /\ th' = [th EXCEPT ![t].pc = "descend",
                        ![t].cur = IF version(node[th[t].cur].version_lock)
                                      = th[t].version
                                   THEN th[t].next ELSE @]
    /\ UNCHANGED <<node, root, stored, dup>>

\* OLFIT::search at the leaf: scan, or chase the right link past the highkey
ScanLeaf(t) ==
    /\ ~Crashed
    /\ UNCHANGED avars
    /\ UNCHANGED ovars
    /\ UNCHANGED wvars
    /\ th[t].pc = "scan"
    /\ LET l   == th[t].cur
           hit == {i \in KeySlots : node[l].keys[i] = th[t].k}
       IN  IF hit # {}
           THEN LET i == CHOOSE j \in hit : TRUE
                IN  th' = [th EXCEPT ![t] = Return(t, "Found", node[l].values[i],
                                                   node[l].value_sizes[i])]
           ELSE IF /\ node[l].highkey # NULL
                   /\ th[t].k > node[l].highkey
                   /\ node[l].right_link # NULL
                THEN th' = [th EXCEPT ![t].cur = node[l].right_link]
                ELSE th' = [th EXCEPT ![t] = Return(t, "NotFound", NullVal, 0)]
    /\ UNCHANGED <<node, root, stored, dup>>

LockLeaf(t) ==
    /\ ~Crashed
    /\ UNCHANGED avars
    /\ UNCHANGED ovars
    /\ UNCHANGED wvars
    /\ th[t].pc = "lock"
    /\ ~is_locked(node, th[t].cur)
    /\ node' = lock(node, th[t].cur)
    /\ th' = [th EXCEPT ![t].pc = "moveright"]
    /\ UNCHANGED <<root, stored, dup>>

\* the stay-or-go test of move_right
move_right_stays(nd, l, k) ==
    \/ nd[l].right_link = NULL
    \/ nd[nd[l].right_link].keys[1] > k

\* a wrong variant of move_right: the sibling is locked, the leaf is not released
MoveRight_keeps_lock(t) ==
    /\ ~Crashed
    /\ UNCHANGED avars
    /\ UNCHANGED ovars
    /\ UNCHANGED wvars
    /\ th[t].pc = "moveright"
    /\ LET l == th[t].cur
           r == node[l].right_link
       IN  IF move_right_stays(node, l, th[t].k)
           THEN /\ th' = [th EXCEPT ![t].pc = "insert"]
                /\ UNCHANGED node
           ELSE /\ ~is_locked(node, r)
                /\ node' = lock(node, r)
                /\ th' = [th EXCEPT ![t].cur = r, ![t].moved = @ + 1]
    /\ UNCHANGED <<root, stored, dup>>

\* OLFIT::move_right: one call; the recursion is the next step
MoveRight(t) ==
    /\ ~Crashed
    /\ UNCHANGED avars
    /\ UNCHANGED ovars
    /\ UNCHANGED wvars
    /\ th[t].pc = "moveright"
    /\ LET l == th[t].cur
           r == node[l].right_link
       IN  IF move_right_stays(node, l, th[t].k)
           THEN /\ th' = [th EXCEPT ![t].pc = "insert"]
                /\ UNCHANGED node
           ELSE /\ ~is_locked(node, r)
                /\ node' = unlock(lock(node, r), l)
                /\ th' = [th EXCEPT ![t].cur = r, ![t].moved = @ + 1]
    /\ UNCHANGED <<root, stored, dup>>

Store(k, v) == IF stored[k] = NullVal THEN [stored EXCEPT ![k] = v] ELSE stored

\* insert step 4 (the leaf has room, or holds the key), else on to split_leaf
LeafInsert(t) ==
    /\ ~Crashed
    /\ UNCHANGED avars
    /\ UNCHANGED ovars
    /\ UNCHANGED <<replayed, log, logrec, ctor>>
    /\ th[t].pc = "insert"
    /\ LET l  == th[t].cur
           st == LeafInsertStatus(node, l, th[t].k)
       IN  IF st = "RepeatInsert"
           THEN /\ node' = unlock(node, l)
                /\ th' = [th EXCEPT ![t] = Return(t, "RepeatInsert", NullVal, 0)]
                /\ UNCHANGED <<stored, regions>>
           ELSE IF st = "Ok"
           THEN /\ node' = unlock(LeafNode_insert(node, l, th[t].k, th[t].v), l)
                /\ th' = [th EXCEPT ![t] = Return(t, "Ok", NullVal, 0)]
                /\ stored' = Store(th[t].k, th[t].v)
                /\ regions' = Logged(regions, t, "Insert", th[t].k)
           ELSE /\ th' = [th EXCEPT ![t].pc = "split"]
                /\ UNCHANGED <<node, stored, regions>>
    /\ UNCHANGED <<root, dup>>

\* insert step 4 one store group at a time (spec.md 4.E): the log record is
\* opened, the memory for the pair is allocated, the pointers are placed in
\* the leaf, the record is committed and the leaf unlocked
InsertOpen(t) ==
    /\ ~Crashed
    /\ UNCHANGED avars
    /\ UNCHANGED ovars
    /\ UNCHANGED <<replayed, log, logrec, ctor>>
    /\ th[t].pc = "insert"
    /\ LET l  == th[t].cur
           st == LeafInsertStatus(node, l, th[t].k)
       IN  IF st = "RepeatInsert"
           THEN /\ node' = unlock(node, l)
                /\ th' = [th EXCEPT ![t] = Return(t, "RepeatInsert", NullVal, 0)]
                /\ UNCHANGED regions
           ELSE IF st = "Ok"
           THEN /\ regions' = make_log(regions, t, "Insert", th[t].k)
                /\ th' = [th EXCEPT ![t].pc = "insert_allocate"]
                /\ UNCHANGED node
           ELSE /\ th' = [th EXCEPT ![t].pc = "split"]
                /\ UNCHANGED <<node, regions>>
    /\ UNCHANGED <<root, stored, dup>>

InsertAllocate(t) ==
    /\ ~Crashed
    /\ UNCHANGED avars
    /\ UNCHANGED ovars
    /\ UNCHANGED wvars
    /\ th[t].pc = "insert_allocate"
    /\ th' = [th EXCEPT ![t].pc = "insert_place"]
    /\ UNCHANGED <<node, root, stored, dup>>

InsertPlace(t) ==
    /\ ~Crashed
    /\ UNCHANGED avars
    /\ UNCHANGED ovars
    /\ UNCHANGED wvars
    /\ th[t].pc = "insert_place"
    /\ node' = LeafNode_insert(node, th[t].cur, th[t].k, th[t].v)
    /\ th' = [th EXCEPT ![t].pc = "insert_commit"]
    /\ UNCHANGED <<root, stored, dup>>

InsertCommit(t) ==
    /\ ~Crashed
    /\ UNCHANGED avars
    /\ UNCHANGED ovars
    /\ UNCHANGED <<replayed, log, logrec, ctor>>
    /\ th[t].pc = "insert_commit"
    /\ regions' = commit(regions, t)
    /\ node' = unlock(node, th[t].cur)
    /\ th' = [th EXCEPT ![t] = Return(t, "Ok", NullVal, 0)]
    /\ stored' = Store(th[t].k, th[t].v)
    /\ UNCHANGED <<root, dup>>

\* the allocator gives no memory for the pair or for the new leaf: the record
\* that was opened stays uncommitted, no node is changed, the leaf is unlocked
\* and insert returns NoMemory (spec.md 4.E, failure semantics)
InsertNoMemory(t) ==
    /\ ~Crashed
    /\ UNCHANGED avars
    /\ UNCHANGED ovars
    /\ UNCHANGED <<replayed, log, logrec, ctor>>
    /\ th[t].pc = "insert"
    /\ LeafInsertStatus(node, th[t].cur, th[t].k) # "RepeatInsert"
    /\ regions' = make_log(regions, t,
                           IF is_full(node, th[t].cur) THEN "NodeSplit" ELSE "Insert",
                           th[t].k)
    /\ node' = unlock(node, th[t].cur)
    /\ th' = [th EXCEPT ![t] = Return(t, "NoMemory", NullVal, 0)]
    /\ UNCHANGED <<root, stored, dup>>

SplitLeaf(t) ==
    /\ ~Crashed
    /\ UNCHANGED avars
    /\ UNCHANGED ovars
    /\ UNCHANGED <<replayed, log, logrec, ctor>>
    /\ regions' = Logged(regions, t, "NodeSplit", th[t].k)
    /\ th[t].pc = "split"
    /\ node' = split_leaf(node, th[t].cur, th[t].k, th[t].v)
    /\ th' = [th EXCEPT ![t].pc = "pushup",
                        ![t].new = Len(node) + 1,
                        ![t].nl = Len(node) + 1,
                        ![t].skey = MedianKey(node, th[t].cur)]
    /\ UNCHANGED <<root, stored, dup>>

\* split_leaf one store group at a time (spec.md 4.E, steps 2 to 6).
\* Steps 2 and 3: the new leaf takes the id Len(nd) + 1 and the right half
\* moves to it
split_move(nd, l) ==
    LET ks    == KeysOf(nd, l)
        n     == Len(ks)
        m     == MedianIndex
        left  == [nd[l] EXCEPT
                    !.keys = Pad(SubSeq(ks, 1, m), iNUM_HIGHKEY, NULL),
                    !.values = Pad(SubSeq(nd[l].values, 1, m), iNUM_HIGHKEY, NullVal),
                    !.value_sizes = Pad(SubSeq(nd[l].value_sizes, 1, m), iNUM_HIGHKEY, 0)]
        right == [make_leaf EXCEPT
                    !.keys = Pad(SubSeq(ks, m + 1, n), iNUM_HIGHKEY, NULL),
                    !.values = Pad(SubSeq(nd[l].values, m + 1, n), iNUM_HIGHKEY, NullVal),
                    !.value_sizes = Pad(SubSeq(nd[l].value_sizes, m + 1, n), iNUM_HIGHKEY, 0)]
    IN  Append([nd EXCEPT ![l] = left], right)

\* step 4: the new pair goes into the half its key belongs to
split_place(nd, l, new, median, k, v) ==
    IF k < median THEN [nd EXCEPT ![l] = PlaceInLeaf(@, k, v)]
    ELSE [nd EXCEPT ![new] = PlaceInLeaf(@, k, v)]

\* step 5: the new leaf takes over the links of the old one
split_link(nd, l, new) ==
    [nd EXCEPT ![new].right_link = nd[l].right_link,
               ![new].highkey = nd[l].highkey,
               ![new].parent = nd[l].parent]

\* step 6: the highkey, then the right_link
split_highkey(nd, l, median) == [nd EXCEPT ![l].highkey = median]

split_publish(nd, l, new) == [nd EXCEPT ![l].right_link = new]

SplitMove(t) ==
    /\ ~Crashed
    /\ UNCHANGED avars
    /\ UNCHANGED ovars
    /\ UNCHANGED <<replayed, log, logrec, ctor>>
    /\ th[t].pc = "split"
    /\ regions' = make_log(regions, t, "NodeSplit", th[t].k)
    /\ node' = split_move(node, th[t].cur)
    /\ th' = [th EXCEPT ![t].pc = "split_place",
                        ![t].nl = Len(node) + 1,
                        ![t].skey = MedianKey(node, th[t].cur),
                        ![t].had = {node[th[t].cur].keys[i] : i \in KeySlots} \ {NULL}]
    /\ UNCHANGED <<root, stored, dup>>

SplitPlace(t) ==
    /\ ~Crashed
    /\ UNCHANGED avars
    /\ UNCHANGED ovars
    /\ UNCHANGED wvars
    /\ th[t].pc = "split_place"
    /\ node' = split_place(node, th[t].cur, th[t].nl, th[t].skey, th[t].k, th[t].v)
    /\ th' = [th EXCEPT ![t].pc = "split_link"]
    /\ UNCHANGED <<root, stored, dup>>

SplitLink(t) ==
    /\ ~Crashed
    /\ UNCHANGED avars
    /\ UNCHANGED ovars
    /\ UNCHANGED wvars
    /\ th[t].pc = "split_link"
    /\ node' = split_link(node, th[t].cur, th[t].nl)
    /\ th' = [th EXCEPT ![t].pc = "split_highkey"]
    /\ UNCHANGED <<root, stored, dup>>

SplitHighkey(t) ==
    /\ ~Crashed
    /\ UNCHANGED avars
    /\ UNCHANGED ovars
    /\ UNCHANGED wvars
    /\ th[t].pc = "split_highkey"
    /\ node' = split_highkey(node, th[t].cur, th[t].skey)
    /\ th' = [th EXCEPT ![t].pc = "split_publish"]
    /\ UNCHANGED <<root, stored, dup>>

\* the store of leaf.right_link, and step 7: the log record is committed
SplitPublish(t) ==
    /\ ~Crashed
    /\ UNCHANGED avars
    /\ UNCHANGED ovars
    /\ UNCHANGED <<replayed, log, logrec, ctor>>
    /\ th[t].pc = "split_publish"
    /\ regions' = commit(regions, t)
    /\ node' = split_publish(node, th[t].cur, th[t].nl)
    /\ th' = [th EXCEPT ![t].pc = "pushup", ![t].new = th[t].nl]
    /\ UNCHANGED <<root, stored, dup>>

\* push_up: look at the parent of the node to hand up
PushUp(t) ==
    /\ ~Crashed
    /\ UNCHANGED avars
    /\ UNCHANGED ovars
    /\ UNCHANGED wvars
    /\ th[t].pc = "pushup"
    /\ IF node[th[t].new].parent = NULL
       THEN /\ node' = new_root(node, root, th[t].skey, th[t].new)
            /\ root' = Len(node) + 1
            /\ th' = [th EXCEPT ![t].pc = "finish"]
       ELSE /\ th' = [th EXCEPT ![t].pc = "plock", ![t].par = node[th[t].new].parent]
            /\ UNCHANGED <<node, root>>
    /\ UNCHANGED <<stored, dup>>

LockParent(t) ==
    /\ ~Crashed
    /\ UNCHANGED avars
    /\ UNCHANGED ovars
    /\ UNCHANGED wvars
    /\ th[t].pc = "plock"
    /\ ~is_locked(node, th[t].par)
    /\ node' = lock(node, th[t].par)
    /\ th' = [th EXCEPT ![t].pc = "pmove"]
    /\ UNCHANGED <<root, stored, dup>>

\* move_right at the parent level
ParentMoveRight(t) ==
    /\ ~Crashed
    /\ UNCHANGED avars
    /\ UNCHANGED ovars
    /\ UNCHANGED wvars
    /\ th[t].pc = "pmove"
    /\ LET p == th[t].par
           r == node[p].right_link
       IN  IF move_right_stays(node, p, th[t].skey)
           THEN /\ th' = [th EXCEPT ![t].pc = "pins"]
                /\ UNCHANGED node
           ELSE /\ ~is_locked(node, r)
                /\ node' = unlock(lock(node, r), p)
                /\ th' = [th EXCEPT ![t].par = r]
    /\ UNCHANGED <<root, stored, dup>>

\* push_up at a locked parent: insert, or split_inner and go one level up
ParentInsert(t) ==
    /\ ~Crashed
    /\ UNCHANGED avars
    /\ UNCHANGED ovars
    /\ UNCHANGED wvars
    /\ th[t].pc = "pins"
    /\ LET p == th[t].par
       IN  IF ~is_full(node, p)
           THEN /\ node' = unlock(InnerNode_insert(node, p, th[t].skey, th[t].new), p)
                /\ IF RightmostChild(node', p) = th[t].new
                   THEN th' = [th EXCEPT ![t].pc = "uhk", ![t].hk = th[t].nl,
                                         ![t].hpar = node'[th[t].nl].parent]
                   ELSE th' = [th EXCEPT ![t].pc = "finish"]
           ELSE /\ node' = unlock(split_inner(node, p, th[t].skey, th[t].new), p)
                /\ th' = [th EXCEPT ![t].pc = "pushup",
                                    ![t].new = Len(node) + 1,
                                    ![t].skey = PromotedKey(node, p, th[t].skey)]
    /\ UNCHANGED <<root, stored, dup>>

\* update_highkeys: the entry test, the loop test and the rightmost-child test
UpdateHighkeysCheck(t) ==
    /\ ~Crashed
    /\ UNCHANGED avars
    /\ UNCHANGED ovars
    /\ UNCHANGED wvars
    /\ th[t].pc = "uhk"
    /\ IF th[t].hpar = NULL
       THEN th' = [th EXCEPT ![t].pc = "finish"]
       ELSE IF RightmostChild(node, th[t].hpar) # th[t].hk
       THEN th' = [th EXCEPT ![t].pc = "finish"]
       ELSE th' = [th EXCEPT ![t].pc = "uhklock"]
    /\ UNCHANGED <<node, root, stored, dup>>

\* the body of update_highkeys under the parent's lock
update_highkey(nd, parent, current) ==
    IF parent = nd[current].parent
    THEN [nd EXCEPT ![parent].highkey = nd[current].highkey]
    ELSE nd

\* the log line of update_highkeys calls to_string on current's highkey
update_highkey_outcomes(nd, parent, current) ==
    IF parent = nd[current].parent /\ nd[current].highkey = NULL
    THEN {"crash", "done"}
    ELSE {"done"}

\* a wrong variant of update_highkeys: the parent is not unlocked
UpdateHighkeysLocked_no_unlock(t) ==
    /\ ~Crashed
    /\ UNCHANGED avars
    /\ UNCHANGED ovars
    /\ UNCHANGED wvars
    /\ th[t].pc = "uhklock"
    /\ ~is_locked(node, th[t].hpar)
    /\ \E o \in update_highkey_outcomes(node, th[t].hpar, th[t].hk) :
         IF o = "crash"
         THEN /\ node' = lock(node, th[t].hpar)
              /\ th' = [th EXCEPT ![t].pc = "crashed",
                                  ![t].ret = [NoRet EXCEPT !.status = "Crash"]]
         ELSE /\ node' = update_highkey(lock(node, th[t].hpar), th[t].hpar, th[t].hk)
              /\ th' = [th EXCEPT ![t].pc = "uhk", ![t].hk = th[t].hpar,
                                  ![t].hpar = node[th[t].hpar].parent]
    /\ UNCHANGED <<root, stored, dup>>

\* update_highkeys: lock the parent, set its highkey, unlock, go up
UpdateHighkeysLocked(t) ==
    /\ ~Crashed
    /\ UNCHANGED avars
    /\ UNCHANGED ovars
    /\ UNCHANGED wvars
    /\ th[t].pc = "uhklock"
    /\ ~is_locked(node, th[t].hpar)
    /\ \E o \in update_highkey_outcomes(node, th[t].hpar, th[t].hk) :
         IF o = "crash"
         THEN /\ node' = lock(node, th[t].hpar)
              /\ th' = [th EXCEPT ![t].pc = "crashed",
                                  ![t].ret = [NoRet EXCEPT !.status = "Crash"]]
         ELSE /\ node' = unlock(update_highkey(lock(node, th[t].hpar),
                                               th[t].hpar, th[t].hk),
                                th[t].hpar)
              /\ th' = [th EXCEPT ![t].pc = "uhk", ![t].hk = th[t].hpar,
                                  ![t].hpar = node[th[t].hpar].parent]
    /\ UNCHANGED <<root, stored, dup>>

\* the split path returns: the leaf is unlocked, insert returns Ok
Finish(t) ==
    /\ ~Crashed
    /\ UNCHANGED avars
    /\ UNCHANGED ovars
    /\ UNCHANGED wvars
    /\ th[t].pc = "finish"
    /\ node' = unlock(node, th[t].cur)
    /\ th' = [th EXCEPT ![t] = Return(t, "Ok", NullVal, 0)]
    /\ stored' = Store(th[t].k, th[t].v)
    /\ UNCHANGED <<root, dup>>

\* the process is killed: every thread stops where it is.  The nodes and the
\* log are in persistent memory and stay; OLFIT::root is a member of the object
\* and is gone with it.  A kill counts as one of the MaxOps operations.
Kill ==
    /\ ~Crashed
    /\ UNCHANGED avars
    /\ UNCHANGED ovars
    /\ UNCHANGED wvars
    /\ th[1].nops < MaxOps
    /\ th' = [t \in Threads |->
                [th[t] EXCEPT !.pc = "crashed",
                              !.nops = IF t = 1 THEN @ + 1 ELSE @]]
    /\ UNCHANGED <<node, root, stored, dup>>

\* the entries of every region, as LogRegion::recover walks them
LogEntries(rg) == UNION {{rg[t][i] : i \in DOMAIN rg[t]} : t \in DOMAIN rg}

\* Logger::recover_unique_logger: recover_regions hands every entry to the
\* action and then returns make_regions(ptr)
LoggerRecover ==
    /\ Crashed
    /\ UNCHANGED avars
    /\ UNCHANGED ovars
    /\ replayed' = replayed \cup LogEntries(regions)
    /\ regions' = make_regions
    /\ UNCHANGED <<log, logrec, ctor>>
    /\ th' = [t \in Threads |-> [th[t] EXCEPT !.pc = "recovered"]]
    /\ UNCHANGED <<node, root, stored, dup>>

\* OLFIT::make_olfit after the restart: the constructor logs a NodeSplit,
\* allocates a leaf and makes it the root
Reopen ==
    /\ \A t \in Threads : th[t].pc = "recovered"
    /\ UNCHANGED avars
    /\ UNCHANGED ovars
    /\ UNCHANGED <<replayed, log, logrec, ctor>>
    /\ regions' = Logged(regions, 1, "NodeSplit", NULL)
    /\ node' = Append(node, make_leaf)
    /\ root' = Len(node) + 1
    /\ th' = [t \in Threads |-> [Idle EXCEPT !.nops = th[t].nops]]
    /\ UNCHANGED <<stored, dup>>

-----------------------------------------------------------------------------
(* Memory::Constants, Page *)

uPAGE_SIZE == 16384
uPREALLOCATION == MaxPrealloc  \* 10 by default
iTHREAD_LIST_NUM == MaxSlots    \* 64 in the source
iREGION_NUM == iTHREAD_LIST_NUM
PageHeaderSize == 8             \* sizeof(PageHeader): 8 + 8 + 48 bits
RecordsMod == 256               \* PageHeader::records is 8 bits wide

Slots == 0..(iTHREAD_LIST_NUM - 1)
Pages == 1..NumPages
NoId == -1                      \* an empty std::optional<int>

\* a pointer into the region: the page and the offset in it
NoPtr == [pg |-> NULL, off |-> 0]

Sizes ==
    {(uPAGE_SIZE - PageHeaderSize) \div 2, uPAGE_SIZE - PageHeaderSize,
     uPAGE_SIZE - PageHeaderSize + 1, uPAGE_SIZE, uPAGE_SIZE + 1}

RawPage == [records |-> 0, cursor |-> 0, next |-> NULL]

make_page(pg, p, nxt) ==
    [pg EXCEPT ![p] = [records |-> 0, cursor |-> PageHeaderSize, next |-> nxt]]

Page_allocate(pg, p, size, ptr) ==
    IF uPAGE_SIZE - pg[p].cursor < size
    THEN [page |-> pg, ptr |-> ptr]
    ELSE [page |-> [pg EXCEPT ![p].cursor = @ + size,
                              ![p].records = (@ + 1) % RecordsMod],
          ptr |-> [pg |-> p, off |-> pg[p].cursor]]

-----------------------------------------------------------------------------
(* Memory::Allocator *)

make_allocator ==
    [total_size |-> NumPages * uPAGE_SIZE,
     freelist |-> NULL,
     base |-> 1,
     cursor |-> 1,
     thread_free_lists |-> [i \in Slots |-> NULL],
     thread_pending_pages |-> [i \in Slots |-> NULL],
     thread_busy_pages |-> [i \in Slots |-> NULL],
     to_be_freed |-> [i \in Slots |-> NULL]]

\* a wrong variant of the size test: the limit taken from the region, not the page
size_exceeds_region(size) == size > NumPages * uPAGE_SIZE

size_too_large(size) == size > uPAGE_SIZE

out_of_memory(h) ==
    h.cursor + uPREALLOCATION + 1 > h.base + (h.total_size \div uPAGE_SIZE) - 1

RECURSIVE walk(_, _, _)
walk(pg, p, n) ==
    IF n = 0 \/ p = NULL THEN p ELSE walk(pg, pg[p].next, n - 1)

\* the refill from the global free list
refill_from_freelist(h, pg, id) ==
    LET end == walk(pg, h.freelist, uPREALLOCATION)
    IN  IF end = NULL
        THEN [st |-> "crash", hdr |-> h, page |-> pg]
        ELSE [st |-> "ok",
              hdr |-> [h EXCEPT !.thread_free_lists[id] = h.freelist,
                                !.freelist = pg[end].next],
              page |-> [pg EXCEPT ![end].next = NULL]]

\* the refill from the global heap: uPREALLOCATION + 1 chained pages
refill_from_heap(h, pg, id) ==
    [st |-> "ok",
     hdr |-> [h EXCEPT !.thread_free_lists[id] = h.cursor,
                       !.cursor = @ + uPREALLOCATION + 1],
     page |-> [p \in DOMAIN pg |->
                 IF p >= h.cursor /\ p < h.cursor + uPREALLOCATION
                 THEN [records |-> 0, cursor |-> PageHeaderSize, next |-> p + 1]
                 ELSE IF p = h.cursor + uPREALLOCATION
                 THEN [records |-> 0, cursor |-> PageHeaderSize, next |-> NULL]
                 ELSE pg[p]]]

\* the block under global_lock
refill(h, pg, id) ==
    IF h.thread_free_lists[id] # NULL THEN [st |-> "ok", hdr |-> h, page |-> pg]
    ELSE IF out_of_memory(h) THEN [st |-> "oom", hdr |-> h, page |-> pg]
    ELSE IF h.freelist # NULL THEN refill_from_freelist(h, pg, id)
    ELSE refill_from_heap(h, pg, id)

\* the head of the thread's free list becomes its busy page
promote(h, pg, id) ==
    LET head == h.thread_free_lists[id]
    IN  [hdr |-> [h EXCEPT !.thread_busy_pages[id] = head,
                           !.thread_free_lists[id] = pg[head].next],
         page |-> [pg EXCEPT ![head].next = NULL]]

Allocator_allocate(h, pg, id, size, ptr) ==
    IF size_too_large(size)
    THEN [st |-> "TooLarge", hdr |-> h, page |-> pg, ptr |-> ptr]
    ELSE
    LET busy  == h.thread_busy_pages[id]
        first == IF busy # NULL THEN Page_allocate(pg, busy, size, ptr)
                 ELSE [page |-> pg, ptr |-> ptr]
    IN  IF busy # NULL /\ first.ptr # NoPtr
        THEN [st |-> "Done", hdr |-> h, page |-> first.page, ptr |-> first.ptr]
        ELSE
        LET r == refill(h, first.page, id)
        IN  IF r.st = "oom"
            THEN [st |-> "OutOfMemory", hdr |-> h, page |-> first.page, ptr |-> NoPtr]
            ELSE IF r.st = "crash"
            THEN [st |-> "Crash", hdr |-> h, page |-> first.page, ptr |-> first.ptr]
            ELSE
            LET pr  == promote(r.hdr, r.page, id)
                fin == Page_allocate(pr.page, pr.hdr.thread_busy_pages[id], size,
                                     first.ptr)
            IN  [st |-> "Done", hdr |-> pr.hdr, page |-> fin.page, ptr |-> fin.ptr]

slot_looks_unused(h, i) ==
    h.thread_free_lists[i] = NULL \/ h.thread_busy_pages[i] = NULL

\* register_thread without the store that nulls the pending entry
Allocator_register_thread_keeps_pending(h) ==
    LET free == {i \in Slots : slot_looks_unused(h, i)}
    IN  IF free = {} THEN [id |-> NoId, hdr |-> h]
        ELSE LET i == CHOOSE j \in free : \A m \in free : j <= m
             IN  [id |-> i,
                  hdr |-> IF h.thread_pending_pages[i] # NULL
                          THEN [h EXCEPT !.thread_busy_pages[i] =
                                              h.thread_pending_pages[i]]
                          ELSE h]

Allocator_register_thread(h) ==
    LET free == {i \in Slots : slot_looks_unused(h, i)}
    IN  IF free = {} THEN [id |-> NoId, hdr |-> h]
        ELSE LET i == CHOOSE j \in free : \A m \in free : j <= m
             IN  [id |-> i,
                  hdr |-> IF h.thread_pending_pages[i] # NULL
                          THEN [h EXCEPT !.thread_busy_pages[i] =
                                              h.thread_pending_pages[i],
                                         !.thread_pending_pages[i] = NULL]
                          ELSE h]

Allocator_unregister_thread(h, id) ==
    IF id < 0 \/ id > iTHREAD_LIST_NUM THEN h
    ELSE IF h.thread_busy_pages[id] = NULL THEN h
    ELSE [h EXCEPT !.thread_pending_pages[id] = h.thread_busy_pages[id],
                   !.thread_busy_pages[id] = NULL]

Allocator_free(h, pg, id, ptr) ==
    IF ptr = NoPtr THEN [hdr |-> h, page |-> pg]
    ELSE LET p   == ptr.pg
             rec == (pg[p].records - 1) % RecordsMod
         IN  IF rec = 0
             THEN [hdr |-> [h EXCEPT !.thread_free_lists[id] = p],
                   page |-> [pg EXCEPT ![p] = [records |-> 0,
                                               cursor |-> PageHeaderSize,
                                               next |-> h.thread_free_lists[id]]]]
             ELSE [hdr |-> h, page |-> [pg EXCEPT ![p].records = rec]]

-----------------------------------------------------------------------------
(* The persistent stores of each operation, in program order: what a crash can
   leave behind.  Each operator gives the states after the first, the second,
   ... store of the call; the state before the call is not in it. *)

PM(h, pg) == [hdr |-> h, page |-> pg]

\* Page::allocate publishes the new header with one store
Page_allocate_stores(h, pg, p, size) ==
    LET r == Page_allocate(pg, p, size, NoPtr)
    IN  IF r.ptr = NoPtr THEN <<>> ELSE <<PM(h, r.page)>>

\* pages cursor .. cursor + n - 1 made and chained by Page::make_page
heap_pages_made(h, pg, n) ==
    [p \in DOMAIN pg |->
       IF p >= h.cursor /\ p < h.cursor + n
       THEN [records |-> 0, cursor |-> PageHeaderSize,
             next |-> IF p = h.cursor + uPREALLOCATION THEN NULL ELSE p + 1]
       ELSE pg[p]]

refill_stores(h, pg, id) ==
    IF h.thread_free_lists[id] # NULL \/ out_of_memory(h) THEN <<>>
    ELSE IF h.freelist # NULL
    THEN LET end == walk(pg, h.freelist, uPREALLOCATION)
             h1  == [h EXCEPT !.thread_free_lists[id] = h.freelist]
         IN  IF end = NULL THEN <<PM(h1, pg)>>
             ELSE LET h2 == [h1 EXCEPT !.freelist = pg[end].next]
                  IN  <<PM(h1, pg), PM(h2, pg),
                        PM(h2, [pg EXCEPT ![end].next = NULL])>>
    ELSE LET made == heap_pages_made(h, pg, uPREALLOCATION + 1)
             h1   == [h EXCEPT !.thread_free_lists[id] = h.cursor]
             h2   == [h1 EXCEPT !.cursor = @ + uPREALLOCATION + 1]
         IN  [i \in 1..(uPREALLOCATION + 1) |-> PM(h, heap_pages_made(h, pg, i))]
             \o <<PM(h1, made), PM(h2, made)>>

promote_stores(h, pg, id) ==
    LET head == h.thread_free_lists[id]
        h1   == [h EXCEPT !.thread_busy_pages[id] = head]
        h2   == [h1 EXCEPT !.thread_free_lists[id] = pg[head].next]
    IN  <<PM(h1, pg), PM(h2, pg), PM(h2, [pg EXCEPT ![head].next = NULL])>>

Last(seq, s0) == IF seq = <<>> THEN s0 ELSE seq[Len(seq)]

Allocator_allocate_stores(h, pg, id, size, ptr) ==
    IF size_too_large(size) THEN <<>>
    ELSE
    LET busy  == h.thread_busy_pages[id]
        first == IF busy # NULL THEN Page_allocate_stores(h, pg, busy, size)
                 ELSE <<>>
    IN  IF first # <<>> \/ (busy # NULL /\ ptr # NoPtr) THEN first
        ELSE
        LET rf == refill_stores(h, pg, id)
            s1 == Last(rf, PM(h, pg))
        IN  IF refill(h, pg, id).st # "ok" THEN rf
            ELSE LET pr == promote_stores(s1.hdr, s1.page, id)
                     s2 == Last(pr, s1)
                 IN  rf \o pr \o
                     Page_allocate_stores(s2.hdr, s2.page,
                                          s2.hdr.thread_busy_pages[id], size)

Allocator_register_thread_stores(h, pg) ==
    LET r == Allocator_register_thread(h)
    IN  IF r.id = NoId \/ h.thread_pending_pages[r.id] = NULL THEN <<>>
        ELSE <<PM([h EXCEPT !.thread_busy_pages[r.id] =
                                 h.thread_pending_pages[r.id]], pg),
               PM(r.hdr, pg)>>

Allocator_unregister_thread_stores(h, pg, id) ==
    IF id < 0 \/ id > iTHREAD_LIST_NUM \/ h.thread_busy_pages[id] = NULL THEN <<>>
    ELSE <<PM([h EXCEPT !.thread_pending_pages[id] = h.thread_busy_pages[id]], pg),
           PM(Allocator_unregister_thread(h, id), pg)>>

Allocator_free_stores(h, pg, id, ptr) ==
    IF ptr = NoPtr THEN <<>>
    ELSE LET p   == ptr.pg
             rec == (pg[p].records - 1) % RecordsMod
             h1  == [h EXCEPT !.to_be_freed[id] = p]
             pg1 == [pg EXCEPT ![p].records = rec]
             pg2 == [pg1 EXCEPT ![p].cursor = PageHeaderSize]
             pg3 == [pg2 EXCEPT ![p].next = h.thread_free_lists[id]]
             h2  == [h1 EXCEPT !.thread_free_lists[id] = p]
         IN  IF rec = 0
             THEN <<PM(h1, pg), PM(h1, pg1), PM(h1, pg2), PM(h1, pg3),
                    PM(h2, pg3), PM([h2 EXCEPT !.to_be_freed[id] = NULL], pg3)>>
             ELSE <<PM(h1, pg), PM(h1, pg1),
                    PM([h1 EXCEPT !.to_be_freed[id] = NULL], pg1)>>

-----------------------------------------------------------------------------
(* Allocator::recover.  Three of its passes read or write through a pointer
   they have not tested: a null one is undefined behaviour.  faults tells what
   the build does with it: the process dies there, or the read yields null and
   the write is lost. *)

\* the literal 10 of recover_global_heap, the default of uPREALLOCATION
uRECOVER_GROWTH == uPREALLOCATION

Repair(st, h, pg) == [st |-> st, hdr |-> h, page |-> pg]

recover_pending_list_at(s, i, faults) ==
    LET h == s.hdr
        b == h.thread_busy_pages[i]
    IN  IF s.st # "Ok" \/ h.thread_pending_pages[i] # b THEN s
        ELSE IF b = NULL /\ faults THEN Repair("Fault", h, s.page)
        ELSE Repair("Ok",
                    [h EXCEPT !.thread_free_lists[i] = b,
                              !.thread_busy_pages[i] = NULL],
                    IF b = NULL THEN s.page
                    ELSE [s.page EXCEPT ![b].next = h.thread_free_lists[i]])

recover_global_heap_at(s, i, faults) ==
    IF s.st # "Ok" \/ s.hdr.thread_free_lists[i] # s.hdr.cursor THEN s
    ELSE Repair("Ok", [s.hdr EXCEPT !.cursor = @ + uRECOVER_GROWTH], s.page)

recover_free_lists_at(s, i, faults) ==
    LET h == s.hdr
        b == h.thread_busy_pages[i]
    IN  IF s.st # "Ok" \/ b # h.thread_free_lists[i] THEN s
        ELSE IF b = NULL
        THEN IF faults THEN Repair("Fault", h, s.page) ELSE s
        ELSE Repair("Ok", [h EXCEPT !.thread_free_lists[i] = s.page[b].next],
                    [s.page EXCEPT ![b].next = NULL])

recover_to_be_freed_at(s, i, faults) ==
    LET h == s.hdr
        p == h.to_be_freed[i]
    IN  IF s.st # "Ok" THEN s
        ELSE IF p = NULL
        THEN IF faults THEN Repair("Fault", h, s.page) ELSE s
        ELSE IF s.page[p].next = NULL THEN s
        ELSE Repair("Ok",
                    [h EXCEPT !.thread_free_lists[i] = p, !.to_be_freed[i] = NULL],
                    [s.page EXCEPT ![p].next = h.thread_free_lists[i]])

\* one pass: the loop over the slots, in order
RECURSIVE recover_pending_list(_, _, _)
recover_pending_list(s, i, faults) ==
    IF i = iTHREAD_LIST_NUM THEN s
    ELSE recover_pending_list(recover_pending_list_at(s, i, faults), i + 1, faults)

RECURSIVE recover_global_heap(_, _, _)
recover_global_heap(s, i, faults) ==
    IF i = iTHREAD_LIST_NUM THEN s
    ELSE recover_global_heap(recover_global_heap_at(s, i, faults), i + 1, faults)

RECURSIVE recover_free_lists(_, _, _)
recover_free_lists(s, i, faults) ==
    IF i = iTHREAD_LIST_NUM THEN s
    ELSE recover_free_lists(recover_free_lists_at(s, i, faults), i + 1, faults)

RECURSIVE recover_to_be_freed(_, _, _)
recover_to_be_freed(s, i, faults) ==
    IF i = iTHREAD_LIST_NUM THEN s
    ELSE recover_to_be_freed(recover_to_be_freed_at(s, i, faults), i + 1, faults)

Allocator_recover(h, pg, faults) ==
    LET s1 == recover_pending_list(Repair("Ok", h, pg), 0, faults)
        s2 == recover_global_heap(s1, 0, faults)
        s3 == recover_free_lists(s2, 0, faults)
        s4 == recover_pending_list(s3, 0, faults)
    IN  recover_to_be_freed(s4, 0, faults)

-----------------------------------------------------------------------------
(* WAL::Logger: the slot table *)

init_utility == [i \in 0..(iREGION_NUM - 1) |-> FALSE]

Logger_register_thread(iu) ==
    LET free == {i \in DOMAIN iu : ~iu[i]}
    IN  IF free = {} THEN [id |-> NoId, in_use |-> iu]
        ELSE LET i == CHOOSE j \in free : \A m \in free : j <= m
             IN  [id |-> i, in_use |-> [iu EXCEPT ![i] = TRUE]]

Logger_unregister_thread(iu, id) == [iu EXCEPT ![id] = FALSE]

-----------------------------------------------------------------------------
(* WAL::LogRegions: the log in PM.  make_entry, make_region, make_regions and
   recover_regions are translated from wal.hpp; LogRegion::recover, make_log,
   commit and the checkpoint are declared or called only and follow
   spec.md 4.C. *)

uLOG_REGIONS_MAGIC == "0x1357246813572468"

\* uBATCH_SIZE * uREGION_SIZE entries in a region
LogCap == MaxLog
LogIdx == 0..(LogCap - 1)
Regions == 0..(iREGION_NUM - 1)
LogOps == {"Insert", "NodeSplit"}

\* LogEntry::make_entry on the memory of an entry
make_entry(e) == [address |-> NULL, op |-> "Unknown", status |-> "None"]

\* LogRegion::make_region without the loop over the entries
make_region_keeps_entries(r) == [r EXCEPT !.checkpointed = 0, !.cursor = 0]

\* LogRegion::make_region on the memory of a region
make_region(r) ==
    [checkpointed |-> 0, cursor |-> 0,
     entries |-> [i \in DOMAIN r.entries |-> make_entry(r.entries[i])]]

\* LogRegions::make_regions on the memory of the log
LogRegions_make_regions(lg) ==
    [magic |-> uLOG_REGIONS_MAGIC,
     regions |-> [t \in DOMAIN lg.regions |-> make_region(lg.regions[t])]]

\* PM that never held a log: no magic, whatever bytes there are
RawLog ==
    [magic |-> "none",
     regions |-> [t \in Regions |->
                    [checkpointed |-> 0, cursor |-> LogCap - 1,
                     entries |-> [i \in LogIdx |->
                                    [address |-> NULL, op |-> "Insert",
                                     status |-> "Committed"]]]]]

\* one call of the action: the region, the index and the entry as it is read
Visit(t, i, e) == [t |-> t, i |-> i, e |-> e]

\* LogRegion::recover: the action on every entry of [checkpointed, cursor)
LogRegion_recover(r, t) ==
    [i \in 1..(r.cursor - r.checkpointed) |->
        Visit(t, r.checkpointed + i - 1, r.entries[r.checkpointed + i - 1])]

RECURSIVE recover_each(_, _)
recover_each(lg, t) ==
    IF t = iREGION_NUM THEN <<>>
    ELSE LogRegion_recover(lg.regions[t], t) \o recover_each(lg, t + 1)

\* LogRegions::recover_regions that does not test the magic
recover_regions_any_magic(lg) ==
    [visits |-> recover_each(lg, 0), log |-> LogRegions_make_regions(lg)]

\* LogRegions::recover_regions
recover_regions(lg) ==
    [visits |-> IF lg.magic = uLOG_REGIONS_MAGIC THEN recover_each(lg, 0)
                ELSE <<>>,
     log |-> LogRegions_make_regions(lg)]

\* Logger::make_log: the next entry of the region, Uncommitted, and the
\* cursor past it
Logger_make_log(lg, t, op) ==
    LET r == lg.regions[t]
    IN  IF r.cursor = LogCap THEN lg
        ELSE [lg EXCEPT !.regions[t].entries[r.cursor] =
                           [address |-> NULL, op |-> op, status |-> "Uncommitted"],
                        !.regions[t].cursor = r.cursor + 1]

\* Logger::commit: the entry make_log reserved last
Logger_commit(lg, t) ==
    LET r == lg.regions[t]
    IN  IF r.cursor = r.checkpointed THEN lg
        ELSE [lg EXCEPT !.regions[t].entries[r.cursor - 1].status = "Committed"]

\* the first entry from i on that is not Committed, or the cursor
RECURSIVE FirstOpen(_, _)
FirstOpen(r, i) ==
    IF i = r.cursor \/ r.entries[i].status # "Committed" THEN i
    ELSE FirstOpen(r, i + 1)

\* the checkpoint: the completed entries are folded into checkpointed
Logger_checkpoint(lg, t) ==
    [lg EXCEPT !.regions[t].checkpointed = FirstOpen(lg.regions[t], @)]

NoRecovery == [ran |-> FALSE, visits |-> <<>>]

\* no call of the constructor yet
NoCtor == [pc |-> "none", c |-> 0, tid |-> NoId, ptr |-> NoPtr, root |-> NoPtr]

-----------------------------------------------------------------------------
(* The client threads of the allocator and the logger *)

NoClient ==
    [atid |-> NoId,     \* what Allocator::register_thread returned
     ltid |-> NoId,     \* what Logger::register_thread returned
     tid |-> NoId,      \* what the helper register_thread returned
     ptr |-> NoPtr]     \* the byte_ptr_t the thread passes to allocate and free

NoCall ==
    [op |-> "none", c |-> 0, size |-> 0, status |-> "none",
     atid |-> NoId, ltid |-> NoId, n |-> 0]

\* the assert of the helper failed: the process is gone
Aborted == lastCall.status = "Abort"

\* the run is cut at MaxCalls calls
CallsLeft == lastCall.n < MaxCalls

\* the helper register_thread of the tests
Register(c) ==
    /\ ~Aborted
    /\ CallsLeft
    /\ client[c].tid = NoId
    /\ LET a == Allocator_register_thread(hdr)
           l == Logger_register_thread(in_use)
       IN  IF a.id = NoId
           THEN /\ hdr' = a.hdr
                /\ UNCHANGED in_use
                /\ client' = [client EXCEPT ![c] = NoClient]
                /\ lastCall' = [op |-> "register", c |-> c, size |-> 0,
                                status |-> "NoSlot", atid |-> NoId, ltid |-> NoId,
                                n |-> lastCall.n + 1]
           ELSE /\ hdr' = a.hdr
                /\ in_use' = l.in_use
                /\ client' = [client EXCEPT ![c] =
                                [atid |-> a.id, ltid |-> l.id,
                                 tid |-> IF l.id = a.id THEN a.id ELSE NoId,
                                 ptr |-> NoPtr]]
                /\ lastCall' = [op |-> "register", c |-> c, size |-> 0,
                                status |-> IF l.id = NoId THEN "NoSlot"
                                           ELSE IF l.id # a.id THEN "Abort"
                                           ELSE "Ok",
                                atid |-> a.id, ltid |-> l.id,
                                n |-> lastCall.n + 1]
    /\ UNCHANGED <<page, live>>
    /\ UNCHANGED ivars
    /\ UNCHANGED ovars

\* a registered thread gives its slot back
Unregister(c) ==
    /\ ~Aborted
    /\ CallsLeft
    /\ client[c].tid # NoId
    /\ hdr' = Allocator_unregister_thread(hdr, client[c].tid)
    /\ in_use' = Logger_unregister_thread(in_use, client[c].tid)
    /\ client' = [client EXCEPT ![c] = NoClient]
    /\ lastCall' = [op |-> "unregister", c |-> c, size |-> 0, status |-> "Ok",
                    atid |-> client[c].atid, ltid |-> client[c].ltid,
                    n |-> lastCall.n + 1]
    /\ UNCHANGED <<page, live>>
    /\ UNCHANGED ivars
    /\ UNCHANGED ovars

\* OLFIT::make_olfit: register with both, build, unregister both
MakeOlfit ==
    /\ ~Aborted
    /\ CallsLeft
    /\ LET a == Allocator_register_thread(hdr)
           l == Logger_register_thread(in_use)
       IN  IF a.id = NoId
           THEN /\ UNCHANGED <<hdr, in_use>>
                /\ lastCall' = [op |-> "make_olfit", c |-> 0, size |-> 0,
                                status |-> "Null", atid |-> NoId, ltid |-> NoId,
                                n |-> lastCall.n + 1]
           ELSE IF l.id = NoId
           THEN /\ hdr' = a.hdr
                /\ UNCHANGED in_use
                /\ lastCall' = [op |-> "make_olfit", c |-> 0, size |-> 0,
                                status |-> "Null", atid |-> a.id, ltid |-> NoId,
                                n |-> lastCall.n + 1]
           ELSE /\ hdr' = Allocator_unregister_thread(a.hdr, a.id)
                /\ in_use' = Logger_unregister_thread(l.in_use, l.id)
                /\ lastCall' = [op |-> "make_olfit", c |-> 0, size |-> 0,
                                status |-> IF a.id # l.id THEN "Null" ELSE "Ok",
                                atid |-> a.id, ltid |-> l.id,
                                n |-> lastCall.n + 1]
    /\ UNCHANGED <<page, client, live>>
    /\ UNCHANGED ivars
    /\ UNCHANGED ovars

\* a block: size bytes at a pointer
Block(ptr, size) == [pg |-> ptr.pg, off |-> ptr.off, size |-> size]

\* the call took a block from a page: it ends as the call with a null ptr does
took_block(h, pg, id, size, r) ==
    LET r0 == Allocator_allocate(h, pg, id, size, NoPtr)
    IN  r.ptr # NoPtr /\ r.ptr = r0.ptr /\ r.page = r0.page

\* Allocator::allocate by a registered thread; stale: ptr holds an old address
Allocate(c, size, stale) ==
    /\ ~Aborted
    /\ CallsLeft
    /\ client[c].tid # NoId
    /\ LET r == Allocator_allocate(hdr, page, client[c].tid, size,
                                   IF stale THEN client[c].ptr ELSE NoPtr)
       IN  /\ hdr' = r.hdr
           /\ page' = r.page
           /\ client' = [client EXCEPT ![c].ptr = r.ptr]
           /\ live' = IF took_block(hdr, page, client[c].tid, size, r)
                      THEN live \cup {Block(r.ptr, size)} ELSE live
           /\ lastCall' = [op |-> "allocate", c |-> c, size |-> size,
                           status |-> r.st, atid |-> client[c].atid,
                           ltid |-> client[c].ltid,
                    n |-> lastCall.n + 1]
    /\ UNCHANGED in_use
    /\ UNCHANGED ivars
    /\ UNCHANGED ovars

\* Allocator::free of the address the thread holds
Free(c) ==
    /\ ~Aborted
    /\ CallsLeft
    /\ client[c].tid # NoId
    /\ client[c].ptr # NoPtr
    /\ LET r == Allocator_free(hdr, page, client[c].tid, client[c].ptr)
       IN  /\ hdr' = r.hdr
           /\ page' = r.page
    /\ client' = [client EXCEPT ![c].ptr = NoPtr]
    /\ live' = {b \in live : b.pg # client[c].ptr.pg \/ b.off # client[c].ptr.off}
    /\ lastCall' = [op |-> "free", c |-> c, size |-> 0, status |-> "Ok",
                    atid |-> client[c].atid, ltid |-> client[c].ltid,
                    n |-> lastCall.n + 1]
    /\ UNCHANGED in_use
    /\ UNCHANGED ivars
    /\ UNCHANGED ovars

\* a thread that takes many small blocks from one page: the size of a block,
\* and the calls it makes in all
SmallSize == PageHeaderSize

SmallLeft == lastCall.n < MaxSmall

LiveIn(p) == {b \in live : b.pg = p}

\* Allocator::allocate of one small block
AllocateSmall(c) ==
    /\ SmallLeft
    /\ client[c].tid # NoId
    /\ LET r == Allocator_allocate(hdr, page, client[c].tid, SmallSize, NoPtr)
       IN  /\ hdr' = r.hdr
           /\ page' = r.page
           /\ client' = [client EXCEPT ![c].ptr = r.ptr]
           /\ live' = IF took_block(hdr, page, client[c].tid, SmallSize, r)
                      THEN live \cup {Block(r.ptr, SmallSize)} ELSE live
           /\ lastCall' = [op |-> "allocate", c |-> c, size |-> SmallSize,
                           status |-> r.st, atid |-> client[c].atid,
                           ltid |-> client[c].ltid, n |-> lastCall.n + 1]
    /\ UNCHANGED in_use
    /\ UNCHANGED ivars
    /\ UNCHANGED ovars

\* Allocator::free of the block taken last, once the page holds nearly as many
\* blocks as the record count can tell apart
FreeSmall(c) ==
    /\ SmallLeft
    /\ client[c].tid # NoId
    /\ client[c].ptr # NoPtr
    /\ Cardinality(LiveIn(client[c].ptr.pg)) >= RecordsMod - 2
    /\ LET r == Allocator_free(hdr, page, client[c].tid, client[c].ptr)
       IN  /\ hdr' = r.hdr
           /\ page' = r.page
    /\ client' = [client EXCEPT ![c].ptr = NoPtr]
    /\ live' = {b \in live : b.pg # client[c].ptr.pg \/ b.off # client[c].ptr.off}
    /\ lastCall' = [op |-> "free", c |-> c, size |-> 0, status |-> "Ok",
                    atid |-> client[c].atid, ltid |-> client[c].ltid,
                    n |-> lastCall.n + 1]
    /\ UNCHANGED in_use
    /\ UNCHANGED ivars
    /\ UNCHANGED ovars

\* the process is gone and recover() has not yet run to its end
Down ==
    \/ lastCall.op = "crash"
    \/ lastCall.op = "recover" /\ lastCall.status = "Fault"

\* the process dies after the j-th store of a call; what was in DRAM is gone
Crash(stores, j, what, c, size) ==
    /\ ~Aborted
    /\ ~Down
    /\ CallsLeft
    /\ j \in 0..(Len(stores) - 1)
    /\ hdr' = IF j = 0 THEN hdr ELSE stores[j].hdr
    /\ page' = IF j = 0 THEN page ELSE stores[j].page
    /\ client' = [d \in Clients |-> NoClient]
    /\ in_use' = init_utility
    /\ lastCall' = [op |-> "crash", c |-> c, size |-> size, status |-> what,
                    atid |-> client[c].atid, ltid |-> client[c].ltid,
                    n |-> lastCall.n + 1]
    /\ UNCHANGED live
    /\ UNCHANGED ivars
    /\ UNCHANGED ovars

CrashInRegister(c, j) ==
    /\ client[c].tid = NoId
    /\ Crash(Allocator_register_thread_stores(hdr, page), j, "register", c, 0)

CrashInUnregister(c, j) ==
    /\ client[c].tid # NoId
    /\ Crash(Allocator_unregister_thread_stores(hdr, page, client[c].tid), j,
             "unregister", c, 0)

CrashInAllocate(c, size, stale, j) ==
    /\ client[c].tid # NoId
    /\ Crash(Allocator_allocate_stores(hdr, page, client[c].tid, size,
                                       IF stale THEN client[c].ptr ELSE NoPtr),
             j, "allocate", c, size)

CrashInFree(c, j) ==
    /\ client[c].tid # NoId
    /\ client[c].ptr # NoPtr
    /\ Crash(Allocator_free_stores(hdr, page, client[c].tid, client[c].ptr), j,
             "free", c, 0)

\* the restart: Allocator::recover on the region the crash left
Recover(faults) ==
    /\ Down
    /\ CallsLeft
    /\ LET r == Allocator_recover(hdr, page, faults)
       IN  /\ hdr' = r.hdr
           /\ page' = r.page
           /\ lastCall' = [op |-> "recover", c |-> lastCall.c,
                           size |-> lastCall.size, status |-> r.st,
                           atid |-> NoId, ltid |-> NoId, n |-> lastCall.n + 1]
    /\ UNCHANGED <<in_use, client, live>>
    /\ UNCHANGED ivars
    /\ UNCHANGED ovars

\* the process ends between two calls and the region is opened again:
\* make_allocator runs Allocator::recover on an allocator no call was cut in
RecoverClean(faults) ==
    /\ ~Aborted
    /\ ~Down
    /\ CallsLeft
    /\ LET r == Allocator_recover(hdr, page, faults)
       IN  /\ hdr' = r.hdr
           /\ page' = r.page
           /\ lastCall' = [op |-> "recover", c |-> 0, size |-> 0,
                           status |-> r.st, atid |-> NoId, ltid |-> NoId,
                           n |-> lastCall.n + 1]
    /\ client' = [d \in Clients |-> NoClient]
    /\ in_use' = init_utility
    /\ UNCHANGED live
    /\ UNCHANGED ivars
    /\ UNCHANGED ovars

-----------------------------------------------------------------------------
(* Memory::RemotePointer, Memory::PolymorphicPointer.  A 64-bit word is the
   set of the positions of its one bits, bit 0 the lowest. *)

WordBits == 0..63

\* the word of a small non-negative integer
ToWord(n) == {i \in 0..30 : (n \div (2 ^ i)) % 2 = 1}

\* the integer of a word that fits one
RECURSIVE ToInt(_)
ToInt(w) ==
    IF w = {} THEN 0
    ELSE LET i == CHOOSE j \in w : TRUE IN 2 ^ i + ToInt(w \ {i})

BitAnd(a, b) == a \cap b
BitOr(a, b) == a \cup b
BitNot(a) == WordBits \ a
ShiftLeft(a, n) == {i + n : i \in a} \cap WordBits
ShiftRight(a, n) == {i - n : i \in {j \in a : j >= n}}

uREMOTE_POINTER_MASK == BitNot(48..63)      \* ~0xffff000000000000UL
uREMOTE_POINTER_BITS_MASK == {62, 63}       \* 0xc000000000000000UL
uREMOTE_POINTER_BITS == ToWord(2)           \* 0x2UL

is_remote_pointer(ptr) ==
    ShiftRight(BitAnd(ptr, uREMOTE_POINTER_BITS_MASK), 62) = uREMOTE_POINTER_BITS

\* a wrong variant of make_remote_pointer: the meta byte shifted by 48
make_remote_pointer_48(nodeId, address) ==
    LET value == BitAnd(address, uREMOTE_POINTER_MASK)
        meta  == BitOr(ShiftLeft(uREMOTE_POINTER_BITS, 6),
                       BitAnd(ToWord(nodeId), BitNot(ToWord(192))))
    IN  BitOr(ShiftLeft(meta, 48), value)

make_remote_pointer(nodeId, address) ==
    LET value == BitAnd(address, uREMOTE_POINTER_MASK)
        meta  == BitOr(ShiftLeft(uREMOTE_POINTER_BITS, 6),
                       BitAnd(ToWord(nodeId), BitNot(ToWord(192))))
    IN  BitOr(ShiftLeft(meta, 56), value)

\* the result is narrowed to int
get_node(ptr) == ToInt(BitAnd(ShiftRight(ptr, 56), BitNot(ToWord(192))) \cap 0..30)

\* PolymorphicPointer built from a local address: the union holds its bits
make_ploymorphic_pointer(address) == address

is_remote(ptr) == is_remote_pointer(ptr)
is_local(ptr) == ~is_remote_pointer(ptr)
raw_ptr(ptr) == ptr

\* the inputs: every node id of the layout and some the field cannot hold,
\* and addresses with bits at the ends of the offset field, next to it and in
\* the tag
RemoteNodes == 0..63 \cup {64, 65, 128, 192, 255}

Addresses ==
    {{}, {0}, {47}, 0..47, {3, 12, 30}, {14, 46}, 3..46, {48}, {47, 48},
     {12, 61}, {12, 62}, {12, 63}, {12, 62, 63}, 47..63}

NoPointer == [kind |-> "none", nodeId |-> 0, address |-> {}, bits |-> {}]

MakeRemote(n, a) ==
    /\ pointer' = [kind |-> "remote", nodeId |-> n, address |-> a,
                bits |-> make_remote_pointer(n, a)]
    /\ UNCHANGED <<word, lk>>
    /\ UNCHANGED ivars
    /\ UNCHANGED avars

MakeLocal(a) ==
    /\ pointer' = [kind |-> "local", nodeId |-> 0, address |-> a,
                bits |-> make_ploymorphic_pointer(a)]
    /\ UNCHANGED <<word, lk>>
    /\ UNCHANGED ivars
    /\ UNCHANGED avars

-----------------------------------------------------------------------------
(* VersionLock: one lock word and the threads that call lock, try_lock and
   unlock on it.  Every load, compare-and-swap and add is one step. *)

Lockers == 1..NumLockers

\* a wrong variant of cas_expected: bit 0 is not cleared
cas_expected_as_read(tmp) == tmp

\* expected = tmp & (~0x1UL)

cas_expected(tmp) == tmp - (tmp % 2)

\* desired = tmp | (0x1UL)
cas_desired(tmp) == IF tmp % 2 = 1 THEN tmp ELSE tmp + 1

\* a wrong variant of unlock: the lock bit cleared, the version not advanced
VersionLock_unlock_clear(w) == w - 1

\* l += 1
VersionLock_unlock(w) == w + 1

VersionLock_is_locked(w) == w % 2 = 1

NotLocking == [pc |-> "idle", tmp |-> 0, got |-> 0, ret |-> "none", rel |-> 0]

\* lock() or try_lock() is called
CallLock(t, how) ==
    /\ lk[t].pc = "idle"
    /\ word < MaxWord
    /\ lk' = [lk EXCEPT ![t] = [NotLocking EXCEPT !.pc = how]]
    /\ UNCHANGED <<word, pointer>>
    /\ UNCHANGED ivars
    /\ UNCHANGED avars

\* tmp = l.load()
LockLoad(t) ==
    /\ lk[t].pc \in {"lock", "try_lock"}
    /\ lk' = [lk EXCEPT ![t].pc = IF lk[t].pc = "lock" THEN "lock_cas"
                                  ELSE "try_cas",
                        ![t].tmp = word]
    /\ UNCHANGED <<word, pointer>>
    /\ UNCHANGED ivars
    /\ UNCHANGED avars

\* l.compare_exchange_strong(expected, desired): lock() loads again when it
\* fails, try_lock() returns what it gave
LockCas(t) ==
    /\ lk[t].pc \in {"lock_cas", "try_cas"}
    /\ IF word = cas_expected(lk[t].tmp)
       THEN /\ word' = cas_desired(lk[t].tmp)
            /\ lk' = [lk EXCEPT ![t].pc = "holding", ![t].got = word,
                                ![t].ret = "true"]
       ELSE /\ UNCHANGED word
            /\ lk' = [lk EXCEPT ![t] =
                        IF lk[t].pc = "lock_cas"
                        THEN [lk[t] EXCEPT !.pc = "lock"]
                        ELSE [lk[t] EXCEPT !.pc = "idle", !.ret = "false"]]
    /\ UNCHANGED pointer
    /\ UNCHANGED ivars
    /\ UNCHANGED avars

\* unlock() by the thread that holds the lock
Unlock(t) ==
    /\ lk[t].pc = "holding"
    /\ word' = VersionLock_unlock(word)
    /\ lk' = [lk EXCEPT ![t].pc = "idle", ![t].ret = "unlocked",
                        ![t].rel = word']
    /\ UNCHANGED pointer
    /\ UNCHANGED ivars
    /\ UNCHANGED avars

-----------------------------------------------------------------------------
(* find_next on inner nodes of every shape *)

\* the keys of S in ascending order
RECURSIVE Ascending(_)
Ascending(S) ==
    IF S = {} THEN <<>>
    ELSE LET m == CHOOSE x \in S : \A y \in S : x <= y
         IN  <<m>> \o Ascending(S \ {m})

\* the keys of S that belong under child i of an inner node with keys ks
ChildPart(S, ks, i) ==
    {x \in S : (i = 1 \/ x > ks[i - 1]) /\ (i > Len(ks) \/ x <= ks[i])}

\* an inner node (id 1) with the keys seps and the highkey hk over one leaf per
\* child (ids 2, 3, ..), and its right sibling (the last id) if linked
two_level(S, seps, hk, linked) ==
    LET ks      == Ascending(seps)
        n       == Len(ks)
        leaf(i) == [make_leaf EXCEPT
                      !.keys = Pad(Ascending(ChildPart(S, ks, i)), iNUM_HIGHKEY, NULL),
                      !.parent = 1,
                      !.highkey = IF i <= n THEN ks[i] ELSE NULL,
                      !.right_link = IF i <= n THEN i + 2 ELSE NULL]
        inner   == [make_inner EXCEPT
                      !.keys = Pad(ks, iNUM_HIGHKEY, NULL),
                      !.children = Pad([i \in 1..(n + 1) |-> i + 1], iDEGREE, NULL),
                      !.highkey = hk,
                      !.right_link = IF linked THEN n + 3 ELSE NULL]
    IN  <<inner>> \o [i \in 1..(n + 1) |-> leaf(i)]
                  \o (IF linked THEN <<make_inner>> ELSE <<>>)

\* find_next(inner, k) on such a node
CallFindNext(S, seps, hk, linked, k) ==
    /\ th[1].pc = "idle"
    /\ seps # {}
    /\ Cardinality(seps) <= iNUM_HIGHKEY
    /\ \A i \in 1..(Cardinality(seps) + 1) :
          Cardinality(ChildPart(S, Ascending(seps), i)) <= iNUM_HIGHKEY
    /\ node' = two_level(S, seps, hk, linked)
    /\ root' = 1
    /\ \E r \in HighkeyCompare(node', 1, k) :
          th' = [th EXCEPT ![1] = [Idle EXCEPT !.pc = "found", !.op = "search",
                                               !.cur = 1, !.k = k,
                                               !.next = find_next(node', 1, k, r)]]
    /\ UNCHANGED <<stored, dup>>
    /\ UNCHANGED wvars
    /\ UNCHANGED avars
    /\ UNCHANGED ovars

-----------------------------------------------------------------------------
(* Specifications *)

Init ==
    /\ node = <<make_leaf>>
    /\ root = 1
    /\ th = [t \in Threads |-> Idle]
    /\ stored = [k \in Keys \cup 1..MaxDeepKey |-> NullVal]
    /\ dup = {}
    /\ regions = Logged(make_regions, 1, "NodeSplit", NULL)
    /\ replayed = {}
    /\ log = LogRegions_make_regions(RawLog)
    /\ logrec = NoRecovery
    /\ ctor = NoCtor
    /\ hdr = make_allocator
    /\ page = [p \in Pages |-> RawPage]
    /\ in_use = init_utility
    /\ client = [c \in Clients |-> NoClient]
    /\ lastCall = NoCall
    /\ live = {}
    /\ pointer = NoPointer
    /\ word = 0
    /\ lk = [t \in Lockers |-> NotLocking]

\* the threads of the test: each inserts its own keys once, the value is the key
Next ==
    \E t \in Threads :
       \/ \E k \in OwnKeys(t) : stored[k] = NullVal /\ StartInsert(t, k, <<k>>)
       \/ \E k \in Keys : stored[k] # NullVal /\ StartSearch(t, k)
       \/ Descend(t)
       \/ ScanLeaf(t)
       \/ LockLeaf(t)
       \/ MoveRight(t)
       \/ LeafInsert(t)
       \/ SplitLeaf(t)
       \/ PushUp(t)
       \/ LockParent(t)
       \/ ParentMoveRight(t)
       \/ ParentInsert(t)
       \/ UpdateHighkeysCheck(t)
       \/ UpdateHighkeysLocked(t)
       \/ Finish(t)

Spec == Init /\ [][Next]_vars

\* one thread, any keys and values, repeated keys included
SeqNext ==
    \/ \E k \in SeqKeys, v \in Values : StartInsert(1, k, v)
    \/ \E k \in SeqKeys : StartSearch(1, k)
    \/ Descend(1)
    \/ ScanLeaf(1)
    \/ LockLeaf(1)
    \/ MoveRight(1)
    \/ LeafInsert(1)
    \/ SplitLeaf(1)
    \/ PushUp(1)
    \/ LockParent(1)
    \/ ParentMoveRight(1)
    \/ ParentInsert(1)
    \/ UpdateHighkeysCheck(1)
    \/ UpdateHighkeysLocked(1)
    \/ Finish(1)

SpecSeq == Init /\ [][SeqNext]_vars

\* one thread, with kills and restarts
RestartNext ==
    \/ \E k \in SeqKeys, v \in Values : StartInsert(1, k, v)
    \/ \E k \in SeqKeys : StartSearch(1, k)
    \/ Descend(1)
    \/ ScanLeaf(1)
    \/ LockLeaf(1)
    \/ MoveRight(1)
    \/ LeafInsert(1)
    \/ SplitLeaf(1)
    \/ PushUp(1)
    \/ LockParent(1)
    \/ ParentMoveRight(1)
    \/ ParentInsert(1)
    \/ UpdateHighkeysCheck(1)
    \/ UpdateHighkeysLocked(1)
    \/ Finish(1)
    \/ Kill
    \/ LoggerRecover
    \/ Reopen

SpecRestart == Init /\ [][RestartNext]_vars

\* the scenario of one thread inserting "10", "20", "30", "40" in that order
\* (their order is that of 1, 2, 3, 4), searching in between
S1Keys == <<1, 2, 3, 4>>

S1Next ==
    \/ \E v \in Values :
          /\ th[1].nops < Len(S1Keys)
          /\ StartInsert(1, S1Keys[th[1].nops + 1], v)
    \/ \E i \in DOMAIN S1Keys : StartSearch(1, S1Keys[i])
    \/ Descend(1)
    \/ ScanLeaf(1)
    \/ LockLeaf(1)
    \/ MoveRight(1)
    \/ LeafInsert(1)
    \/ SplitLeaf(1)
    \/ PushUp(1)
    \/ LockParent(1)
    \/ ParentMoveRight(1)
    \/ ParentInsert(1)
    \/ UpdateHighkeysCheck(1)
    \/ UpdateHighkeysLocked(1)
    \/ Finish(1)

SpecS1 == Init /\ [][S1Next]_vars

\* thread 1 inserts the keys of S1Keys in order while thread 2 searches; both
\* descend with every version read its own step
OlcNext ==
    \/ \E v \in Values :
          /\ th[1].nops < Len(S1Keys)
          /\ StartInsert(1, S1Keys[th[1].nops + 1], v)
    \/ \E k \in {S1Keys[i] : i \in DOMAIN S1Keys} : StartSearch(2, k)
    \/ \E t \in Threads : ReadVersion(t)
    \/ \E t \in Threads : SelectChild(t)
    \/ \E t \in Threads : Recheck(t)
    \/ \E t \in Threads : ScanLeaf(t)
    \/ \E t \in Threads : LockLeaf(t)
    \/ \E t \in Threads : MoveRight(t)
    \/ \E t \in Threads : LeafInsert(t)
    \/ \E t \in Threads : SplitLeaf(t)
    \/ \E t \in Threads : PushUp(t)
    \/ \E t \in Threads : LockParent(t)
    \/ \E t \in Threads : ParentMoveRight(t)
    \/ \E t \in Threads : ParentInsert(t)
    \/ \E t \in Threads : UpdateHighkeysCheck(t)
    \/ \E t \in Threads : UpdateHighkeysLocked(t)
    \/ \E t \in Threads : Finish(t)

SpecOlc == Init /\ [][OlcNext]_vars

\* a tree of three levels: the keys 1..MaxDeepKey go in in ascending order,
\* one insert at a time, the first three by thread 1 and the next ones by
\* thread 2; the last key is thread 1's again and its insert runs while the
\* last insert of thread 2 is in progress
DeepThread(k) == IF k <= 3 \/ k = MaxDeepKey THEN 1 ELSE 2

DeepStarted == th[1].nops + th[2].nops

DeepNext ==
    \E t \in Threads :
       \/ /\ DeepStarted < MaxDeepKey
          /\ t = DeepThread(DeepStarted + 1)
          /\ \/ \A u \in Threads : th[u].pc = "idle"
             \/ DeepStarted + 1 = MaxDeepKey
          /\ StartInsert(t, DeepStarted + 1, <<DeepStarted + 1>>)
       \/ Descend(t)
       \/ LockLeaf(t)
       \/ MoveRight(t)
       \/ LeafInsert(t)
       \/ SplitLeaf(t)
       \/ PushUp(t)
       \/ LockParent(t)
       \/ ParentMoveRight(t)
       \/ ParentInsert(t)
       \/ UpdateHighkeysCheck(t)
       \/ UpdateHighkeysLocked(t)
       \/ Finish(t)

SpecDeep == Init /\ [][DeepNext]_vars

\* thread 1 inserts the keys of S1Keys in order, thread 2 the smallest and the
\* largest key, and the allocator may run out of memory
MemNext ==
    \E t \in Threads :
       \/ /\ t = 1
          /\ th[1].nops < Len(S1Keys)
          /\ StartInsert(1, S1Keys[th[1].nops + 1], <<S1Keys[th[1].nops + 1]>>)
       \/ \E k \in {1, MaxKey} : t = 2 /\ StartInsert(2, k, <<k>>)
       \/ Descend(t)
       \/ LockLeaf(t)
       \/ MoveRight(t)
       \/ LeafInsert(t)
       \/ InsertNoMemory(t)
       \/ SplitLeaf(t)
       \/ PushUp(t)
       \/ LockParent(t)
       \/ ParentMoveRight(t)
       \/ ParentInsert(t)
       \/ UpdateHighkeysCheck(t)
       \/ UpdateHighkeysLocked(t)
       \/ Finish(t)

SpecMem == Init /\ [][MemNext]_vars

\* thread 1 inserts, thread 2 searches; split_leaf runs one step at a time
SplitNext ==
    \/ \E k \in SeqKeys, v \in Values : StartInsert(1, k, v)
    \/ \E k \in SeqKeys : StartSearch(2, k)
    \/ \E t \in Threads : Descend(t)
    \/ \E t \in Threads : ScanLeaf(t)
    \/ \E t \in Threads : LockLeaf(t)
    \/ \E t \in Threads : MoveRight(t)
    \/ \E t \in Threads : LeafInsert(t)
    \/ \E t \in Threads : SplitMove(t)
    \/ \E t \in Threads : SplitPlace(t)
    \/ \E t \in Threads : SplitLink(t)
    \/ \E t \in Threads : SplitHighkey(t)
    \/ \E t \in Threads : SplitPublish(t)
    \/ \E t \in Threads : PushUp(t)
    \/ \E t \in Threads : LockParent(t)
    \/ \E t \in Threads : ParentMoveRight(t)
    \/ \E t \in Threads : ParentInsert(t)
    \/ \E t \in Threads : UpdateHighkeysCheck(t)
    \/ \E t \in Threads : UpdateHighkeysLocked(t)
    \/ \E t \in Threads : Finish(t)

SpecSplit == Init /\ [][SplitNext]_vars

\* find_next called on inner nodes of every shape
FindNext ==
    /\ th[1].pc = "idle"
    /\ \E S \in SUBSET Keys, seps \in SUBSET Keys, hk \in Keys,
          linked \in BOOLEAN, k \in Keys : CallFindNext(S, seps, hk, linked, k)

SpecFind == Init /\ [][FindNext]_vars

\* the allocator and the logger under their client threads
AllocNext ==
    \/ \E c \in Clients : Register(c)
    \/ \E c \in Clients : Unregister(c)
    \/ MakeOlfit
    \/ \E c \in Clients, size \in Sizes, stale \in BOOLEAN : Allocate(c, size, stale)
    \/ \E c \in Clients : Free(c)

SpecAlloc == Init /\ [][AllocNext]_vars

\* one thread registers and takes small blocks, more than the record count of
\* a page can count
SmallNext ==
    \/ Register(1)
    \/ AllocateSmall(1)
    \/ FreeSmall(1)

SpecSmall == Init /\ [][SmallNext]_vars

\* the same clients, the region being closed and opened again between calls
ReopenNext ==
    \/ \E c \in Clients : ~Down /\ Register(c)
    \/ \E c \in Clients : ~Down /\ Unregister(c)
    \/ \E c \in Clients, size \in Sizes, stale \in BOOLEAN :
          ~Down /\ Allocate(c, size, stale)
    \/ \E c \in Clients : ~Down /\ Free(c)
    \/ \E faults \in BOOLEAN : RecoverClean(faults)
    \/ \E faults \in BOOLEAN : Recover(faults)

SpecReopen == Init /\ [][ReopenNext]_vars

\* a thread opens a log record in its region
LogMakeLog(t, op) ==
    /\ log' = Logger_make_log(log, t, op)
    /\ logrec' = NoRecovery
    /\ UNCHANGED <<node, root, th, stored, dup, regions, replayed, ctor>>
    /\ UNCHANGED avars
    /\ UNCHANGED ovars

\* a thread commits the record it opened last
LogCommit(t) ==
    /\ log.regions[t].cursor > log.regions[t].checkpointed
    /\ log' = Logger_commit(log, t)
    /\ logrec' = NoRecovery
    /\ UNCHANGED <<node, root, th, stored, dup, regions, replayed, ctor>>
    /\ UNCHANGED avars
    /\ UNCHANGED ovars

\* a thread checkpoints its region
LogCheckpoint(t) ==
    /\ log' = Logger_checkpoint(log, t)
    /\ logrec' = NoRecovery
    /\ UNCHANGED <<node, root, th, stored, dup, regions, replayed, ctor>>
    /\ UNCHANGED avars
    /\ UNCHANGED ovars

\* the PM recover_unique_logger is handed: the log, or PM that never held one
GivenLog(raw) == IF raw THEN RawLog ELSE log

\* the process is killed between two logger calls and restarted:
\* Logger::recover_unique_logger
LogRecover(raw) ==
    /\ LET r == recover_regions(GivenLog(raw))
       IN  /\ log' = r.log
           /\ logrec' = [ran |-> TRUE, visits |-> r.visits]
    /\ UNCHANGED <<node, root, th, stored, dup, regions, replayed, ctor>>
    /\ UNCHANGED avars
    /\ UNCHANGED ovars

LogNext ==
    \/ \E t \in Regions, op \in LogOps : LogMakeLog(t, op)
    \/ \E t \in Regions : LogCommit(t)
    \/ \E t \in Regions : LogCheckpoint(t)
    \/ \E raw \in BOOLEAN : LogRecover(raw)

SpecLog == Init /\ [][LogNext]_vars

-----------------------------------------------------------------------------
(* OLFIT::OLFIT, the constructor, one call at a time: make_log, allocate,
   make_leaf into root, commit (part_000:294-308) *)

\* sizeof(LeafNode): parent, highkey, right_link and version_lock, and a key,
\* a value and a size per slot, eight bytes each
SizeofLeafNode == 8 * (4 + 3 * iNUM_HIGHKEY)

CtorIdle == ctor.pc \in {"none", "committed"}

\* auto ptr = logger->make_log(tid, NodeSplit): the address of the new entry,
\* which is null
CtorMakeLog(c) ==
    /\ ~Aborted
    /\ CtorIdle
    /\ client[c].tid # NoId
    /\ log.regions[client[c].tid].cursor < LogCap
    /\ log' = Logger_make_log(log, client[c].tid, "NodeSplit")
    /\ logrec' = NoRecovery
    /\ ctor' = [pc |-> "logged", c |-> c, tid |-> client[c].tid,
                ptr |-> NoPtr, root |-> NoPtr]
    /\ UNCHANGED <<node, root, th, stored, dup, regions, replayed>>
    /\ UNCHANGED avars
    /\ UNCHANGED ovars

\* alloc->allocate(tid, sizeof(LeafNode), ptr)
CtorAllocate(c) ==
    /\ ctor.pc = "logged"
    /\ ctor.c = c
    /\ LET r == Allocator_allocate(hdr, page, ctor.tid, SizeofLeafNode, ctor.ptr)
       IN  /\ hdr' = r.hdr
           /\ page' = r.page
           /\ ctor' = [ctor EXCEPT !.pc = "allocated", !.ptr = r.ptr]
           /\ live' = IF took_block(hdr, page, ctor.tid, SizeofLeafNode, r)
                      THEN live \cup {Block(r.ptr, SizeofLeafNode)} ELSE live
           /\ lastCall' = [op |-> "allocate", c |-> c, size |-> SizeofLeafNode,
                           status |-> r.st, atid |-> client[c].atid,
                           ltid |-> client[c].ltid, n |-> lastCall.n]
    /\ UNCHANGED <<in_use, client>>
    /\ UNCHANGED <<node, root, th, stored, dup, regions, replayed, log, logrec>>
    /\ UNCHANGED ovars

\* logger->commit(tid) where make_leaf stands in the source
CtorCommit_before_publish(c) ==
    /\ ctor.pc = "allocated"
    /\ ctor.c = c
    /\ log' = Logger_commit(log, ctor.tid)
    /\ logrec' = NoRecovery
    /\ UNCHANGED ctor
    /\ UNCHANGED <<node, root, th, stored, dup, regions, replayed>>
    /\ UNCHANGED avars
    /\ UNCHANGED ovars

\* root = LeafNode::make_leaf(ptr); with a null ptr make_leaf stores through
\* a null pointer and the process is gone
CtorPublish(c) ==
    /\ ctor.pc = "allocated"
    /\ ctor.c = c
    /\ ctor' = IF ctor.ptr = NoPtr THEN [ctor EXCEPT !.pc = "fault"]
               ELSE [ctor EXCEPT !.pc = "published", !.root = ctor.ptr]
    /\ UNCHANGED <<node, root, th, stored, dup, regions, replayed, log, logrec>>
    /\ UNCHANGED avars
    /\ UNCHANGED ovars

\* logger->commit(tid)
CtorCommit(c) ==
    /\ ctor.pc = "published"
    /\ ctor.c = c
    /\ log' = Logger_commit(log, ctor.tid)
    /\ logrec' = NoRecovery
    /\ ctor' = [ctor EXCEPT !.pc = "committed"]
    /\ UNCHANGED <<node, root, th, stored, dup, regions, replayed>>
    /\ UNCHANGED avars
    /\ UNCHANGED ovars

\* the threads register, one of them constructs the index, and once the
\* constructor has returned thread 1 inserts, insert and split_leaf running
\* one store group at a time
OrderNext ==
    \/ \E c \in Clients : ctor.pc = "none" /\ Register(c)
    \/ \E c \in Clients : ctor.pc = "none" /\ CtorMakeLog(c)
    \/ \E c \in Clients : CtorAllocate(c)
    \/ \E c \in Clients : CtorPublish(c)
    \/ \E c \in Clients : CtorCommit(c)
    \/ \E k \in SeqKeys, v \in Values :
          ctor.pc = "committed" /\ StartInsert(1, k, v)
    \/ Descend(1)
    \/ LockLeaf(1)
    \/ MoveRight(1)
    \/ InsertOpen(1)
    \/ InsertAllocate(1)
    \/ InsertPlace(1)
    \/ InsertCommit(1)
    \/ SplitMove(1)
    \/ SplitPlace(1)
    \/ SplitLink(1)
    \/ SplitHighkey(1)
    \/ SplitPublish(1)
    \/ PushUp(1)
    \/ LockParent(1)
    \/ ParentMoveRight(1)
    \/ ParentInsert(1)
    \/ UpdateHighkeysCheck(1)
    \/ UpdateHighkeysLocked(1)
    \/ Finish(1)

SpecOrder == Init /\ [][OrderNext]_vars

\* the largest number of stores of one call
MaxStores == uPREALLOCATION + 7

\* the same clients, with crashes and restarts
CrashNext ==
    \/ \E c \in Clients : ~Down /\ Register(c)
    \/ \E c \in Clients : ~Down /\ Unregister(c)
    \/ \E c \in Clients, size \in Sizes, stale \in BOOLEAN :
          ~Down /\ Allocate(c, size, stale)
    \/ \E c \in Clients : ~Down /\ Free(c)
    \/ \E c \in Clients, j \in 0..MaxStores : CrashInRegister(c, j)
    \/ \E c \in Clients, j \in 0..MaxStores : CrashInUnregister(c, j)
    \/ \E c \in Clients, size \in Sizes, stale \in BOOLEAN, j \in 0..MaxStores :
          CrashInAllocate(c, size, stale, j)
    \/ \E c \in Clients, j \in 0..MaxStores : CrashInFree(c, j)
    \/ \E faults \in BOOLEAN : Recover(faults)

SpecCrash == Init /\ [][CrashNext]_vars

\* pointers built from every input
PtrNext ==
    \/ \E n \in RemoteNodes, a \in Addresses : MakeRemote(n, a)
    \/ \E a \in Addresses : MakeLocal(a)

SpecPtr == Init /\ [][PtrNext]_vars

\* the threads at one VersionLock
LockNext ==
    \/ \E t \in Lockers, how \in {"lock", "try_lock"} : CallLock(t, how)
    \/ \E t \in Lockers : LockLoad(t)
    \/ \E t \in Lockers : LockCas(t)
    \/ \E t \in Lockers : Unlock(t)

SpecLock == Init /\ [][LockNext]_vars

-----------------------------------------------------------------------------
(* What the properties below speak of *)

Quiescent == \A t \in Threads : th[t].pc = "idle"

\* thread t is back from a search that returned
SearchReturned(t) ==
    /\ th[t].op = "search"
    /\ th[t].pc = "idle"
    /\ th[t].ret.status \in {"Found", "NotFound"}

\* thread t is back from an insert that returned
InsertReturned(t) ==
    /\ th[t].op = "insert"
    /\ th[t].pc = "idle"
    /\ th[t].ret.status \in {"Ok", "RepeatInsert"}

\* the search returned exactly what the first insert of its key stored
SearchGaveStored(t) ==
    IF th[t].expect = NullVal
    THEN th[t].ret.status = "NotFound" /\ th[t].ret.ptr = NullVal
    ELSE /\ th[t].ret.status = "Found"
         /\ th[t].ret.ptr = th[t].expect
         /\ th[t].ret.size = Len(th[t].expect)

NodeIds == DOMAIN node

NodeKeys(n) == {node[n].keys[i] : i \in KeySlots} \ {NULL}

NodeChildren(n) ==
    IF is_leaf(node, n) THEN {}
    ELSE {node[n].children[i] : i \in ChildSlots} \ {NULL}

\* the leaf keys below n, to depth d
RECURSIVE SubtreeKeys(_, _)
SubtreeKeys(n, d) ==
    IF is_leaf(node, n) THEN NodeKeys(n)
    ELSE IF d = 0 THEN {}
    ELSE UNION {SubtreeKeys(c, d - 1) : c \in NodeChildren(n)}

Below_(n) == SubtreeKeys(n, Len(node))

SetMax(S) == CHOOSE x \in S : \A y \in S : y <= x

\* the key slots of n as a sequence without the nulls
PackedKeys(n) == Compact(node[n].keys)

StrictlyIncreasing(ks) == \A i, j \in DOMAIN ks : i < j => ks[i] < ks[j]

LeftPacked(n) ==
    \A i \in KeySlots : i < iNUM_HIGHKEY /\ node[n].keys[i] = NULL
                            => node[n].keys[i + 1] = NULL

\* the children of n sit where the keys say: children[i] <= keys[i] < children[i+1]
KeyRange(n) ==
    LET nk == Len(PackedKeys(n))
    IN  /\ \A i \in KeySlots :
              node[n].keys[i] # NULL /\ node[n].children[i] # NULL
                  => \A k \in Below_(node[n].children[i]) : k <= node[n].keys[i]
        /\ nk > 0 /\ node[n].children[nk + 1] # NULL
              => \A k \in Below_(node[n].children[nk + 1]) : k > node[n].keys[nk]

\* the height of n over the leaves
RECURSIVE Height(_, _)
Height(n, d) ==
    IF is_leaf(node, n) \/ d = 0 \/ node[n].children[1] = NULL THEN 0
    ELSE 1 + Height(node[n].children[1], d - 1)

HeightOf(n) == Height(n, Len(node))

\* the leftmost node at height h: down the first children from the root
RECURSIVE Leftmost(_, _)
Leftmost(n, h) ==
    IF HeightOf(n) <= h \/ is_leaf(node, n) THEN n
    ELSE Leftmost(node[n].children[1], h)

\* the nodes met along right_link from n, at most d of them
RECURSIVE Chain(_, _)
Chain(n, d) ==
    IF n = NULL \/ d = 0 THEN <<>>
    ELSE <<n>> \o Chain(node[n].right_link, d - 1)

LevelChain(h) == Chain(Leftmost(root, h), Len(node))

RECURSIVE Flatten(_)
Flatten(ns) ==
    IF ns = <<>> THEN <<>> ELSE PackedKeys(Head(ns)) \o Flatten(Tail(ns))

\* the walk at height h meets every node of the level, its keys ascending
LevelWalk(h) ==
    /\ {LevelChain(h)[i] : i \in DOMAIN LevelChain(h)}
          = {n \in NodeIds : HeightOf(n) = h}
    /\ StrictlyIncreasing(Flatten(LevelChain(h)))

\* a node's highkey bounds its subtree and is the largest key of its rightmost subtree
HighkeyOk(n) ==
    node[n].highkey # NULL /\ Below_(n) # {}
        => /\ \A k \in Below_(n) : k <= node[n].highkey
           /\ LET r == IF is_leaf(node, n) THEN n
                       ELSE RightmostChild(node, n)
              IN  Below_(r) # {} /\ SetMax(Below_(r)) = node[n].highkey

-----------------------------------------------------------------------------
(* Properties of the index *)

\* C1: after inserts of pairwise distinct keys, a search that returns gives the
\* value and the size stored for an inserted key and null for any other key
C1_SearchRoundTrip ==
    dup = {} /\ SearchReturned(1) => SearchGaveStored(1)

\* C1's case: two leaves under a root, and a search for an inserted key is back
C1_Witness ==
    /\ dup = {} /\ SearchReturned(1)
    /\ th[1].expect # NullVal
    /\ ~is_leaf(node, root)

\* C2: threads insert disjoint key sets: every insert returns Ok, and once all
\* of them are back every search gives the inserted value
C2_ConcurrentInserts ==
    \A t \in Threads :
       /\ InsertReturned(t) => th[t].ret.status = "Ok"
       /\ SearchReturned(t) /\ th[t].quiet => SearchGaveStored(t)

\* C2's case: all keys are in, by both threads, and a search started after that
C2_Witness ==
    \E t \in Threads :
       /\ SearchReturned(t) /\ th[t].quiet
       /\ ~is_leaf(node, root)

\* C3: a search started after insert(k, v) returned Ok gives v, whatever the
\* other thread is doing meanwhile
C3_InsertThenSearch ==
    \A t \in Threads :
       SearchReturned(t) /\ th[t].expect # NullVal => SearchGaveStored(t)

\* C3's case: such a search returns while the other thread is inside an insert
\* that has split a leaf
C3_Witness ==
    \E t, u \in Threads :
       /\ SearchReturned(t) /\ th[t].expect # NullVal
       /\ th[u].op = "insert" /\ th[u].pc \in {"pushup", "plock", "pmove", "pins"}

\* C4: the second insert of a key returns RepeatInsert, and a search for the key
\* afterwards still gives the first value
C4_RepeatInsert ==
    /\ InsertReturned(1) /\ th[1].expect # NullVal
          => th[1].ret.status = "RepeatInsert"
    /\ SearchReturned(1) /\ th[1].k \in dup => SearchGaveStored(1)

\* C4's case: an insert of a key that is in the index has returned
C4_Witness ==
    /\ InsertReturned(1) /\ th[1].expect # NullVal
    /\ th[1].v # th[1].expect

\* C5: leaves are left-packed with strictly increasing keys, inner keys are
\* strictly increasing, and every child's subtree lies in its key range
C5_KeyOrder ==
    Quiescent =>
       \A n \in NodeIds :
          /\ StrictlyIncreasing(PackedKeys(n))
          /\ is_leaf(node, n) => LeftPacked(n)
          /\ ~is_leaf(node, n) => KeyRange(n)

\* C5's case: a tree of three levels at rest
C5_Witness ==
    /\ Quiescent
    /\ HeightOf(root) >= 2

\* C6: at rest, the right_link walk of every level meets every node of the
\* level and its keys in ascending order, each once
C6_LevelWalk ==
    Quiescent => \A h \in 0..HeightOf(root) : LevelWalk(h)

\* C6's case: at rest, a level of inner nodes with a right_link
C6_Witness ==
    /\ Quiescent
    /\ \E n \in NodeIds : ~is_leaf(node, n) /\ node[n].right_link # NULL

\* C7: at rest, a non-null highkey bounds the node's subtree and equals the
\* largest key of its rightmost subtree
C7_Highkey ==
    Quiescent => \A n \in NodeIds : HighkeyOk(n)

\* C7's case: at rest, an inner node with a highkey
C7_Witness ==
    /\ Quiescent
    /\ \E n \in NodeIds : ~is_leaf(node, n) /\ node[n].highkey # NULL

-----------------------------------------------------------------------------
(* Properties of the allocator and the logger *)

\* C8: a slot id the allocator handed out and has not got back is not handed
\* out again: two threads never hold the same allocator slot id
C8_SlotOwnedOnce ==
    \A c1, c2 \in Clients :
       c1 # c2 /\ client[c1].atid # NoId /\ client[c2].atid # NoId
          => client[c1].atid # client[c2].atid

\* C8's case: two threads hold allocator slot ids at the same time
C8_Witness ==
    \E c1, c2 \in Clients :
       c1 # c2 /\ client[c1].atid # NoId /\ client[c2].atid # NoId

\* C9: registering with the allocator and then with the logger gives the same
\* slot id, in the helper register_thread and in make_olfit
C9_SameSlot ==
    /\ \A c \in Clients :
          client[c].atid # NoId /\ client[c].ltid # NoId
             => client[c].atid = client[c].ltid
    /\ lastCall.op = "make_olfit" /\ lastCall.atid # NoId /\ lastCall.ltid # NoId
          => lastCall.atid = lastCall.ltid

\* C9's case: a thread registers with both after another thread has registered
\* and allocated
C9_Witness ==
    /\ lastCall.op = "register" /\ lastCall.atid # NoId /\ lastCall.ltid # NoId
    /\ \E c \in Clients :
          /\ c # lastCall.c /\ client[c].tid # NoId
          /\ hdr.thread_busy_pages[client[c].tid] # NULL

\* C10: allocate with a size above the page size fails with TooLarge and
\* changes no field of the allocator header and no page header
C10_TooLargeRejected ==
    [][\A c \in Clients, size \in Sizes, stale \in BOOLEAN :
          Allocate(c, size, stale) /\ size > uPAGE_SIZE
             => /\ lastCall'.status = "TooLarge"
                /\ hdr' = hdr
                /\ page' = page]_vars

\* C10's case: a thread that has a busy page and a free list made the call
C10_Witness ==
    /\ lastCall.op = "allocate"
    /\ lastCall.size > uPAGE_SIZE
    /\ lastCall.status = "TooLarge"
    /\ hdr.thread_busy_pages[lastCall.atid] # NULL
    /\ hdr.thread_free_lists[lastCall.atid] # NULL

\* the address the last call left in its caller's pointer is a fresh block of
\* the asked size inside the caller's busy page
FreshBlock(c, size) ==
    LET p == client[c].ptr
    IN  /\ p # NoPtr
        /\ p.pg = hdr.thread_busy_pages[client[c].tid]
        /\ p.off >= PageHeaderSize
        /\ p.off + size <= uPAGE_SIZE
        /\ page[p.pg].cursor = p.off + size

\* C11: allocate with 0 < size <= PAGE_SIZE, the region not exhausted, leaves a
\* non-null address of size bytes inside one page
C11_AllocateUpToPageSize ==
    /\ lastCall.op = "allocate"
    /\ lastCall.size > 0 /\ lastCall.size <= uPAGE_SIZE
    /\ lastCall.status # "OutOfMemory"
    => FreshBlock(lastCall.c, lastCall.size)

\* C11's case: the largest size a page can hold was asked for, and granted
C11_Witness ==
    /\ lastCall.op = "allocate"
    /\ lastCall.size = uPAGE_SIZE - PageHeaderSize
    /\ lastCall.status = "Done"
    /\ FreshBlock(lastCall.c, lastCall.size)

\* the pages of a list, followed through next
RECURSIVE ListFrom(_, _, _)
ListFrom(pg, p, n) ==
    IF p = NULL \/ n = 0 THEN {} ELSE {p} \cup ListFrom(pg, pg[p].next, n - 1)

FreeListOf(t) == ListFrom(page, hdr.thread_free_lists[t], NumPages)
GlobalFreeList == ListFrom(page, hdr.freelist, NumPages)
SlotPages(t) ==
    (FreeListOf(t) \cup {hdr.thread_busy_pages[t], hdr.thread_pending_pages[t]})
        \ {NULL}

Recovered == lastCall.op = "recover" /\ lastCall.status = "Ok"

SlotDisjoint(t) ==
    LET b == hdr.thread_busy_pages[t]
        p == hdr.thread_pending_pages[t]
    IN  /\ b \notin FreeListOf(t)
        /\ p \notin FreeListOf(t)
        /\ b # NULL => b # p

\* C13: after recover() that follows a crash inside register_thread,
\* unregister_thread, allocate or free, the busy page, the free list and the
\* pending page of every slot are pairwise disjoint, and no page is both in the
\* global free list and in a slot
C13_ListsDisjoint ==
    Recovered =>
        /\ \A t \in Slots : SlotDisjoint(t)
        /\ \A t \in Slots : GlobalFreeList \cap SlotPages(t) = {}

\* C13's case: recover() has run to its end on a region where a slot holds a
\* pending page next to a free list
C13_Witness ==
    /\ Recovered
    /\ \E t \in Slots : /\ hdr.thread_pending_pages[t] # NULL
                        /\ hdr.thread_free_lists[t] # NULL
                        /\ SlotDisjoint(t)

\* every page below the cursor is in a slot or in the global free list, or
\* holds live records
NoPageLeaked ==
    \A p \in Pages :
       p < hdr.cursor =>
          \/ \E t \in Slots : p \in SlotPages(t)
          \/ p \in GlobalFreeList
          \/ page[p].records > 0

\* the cursor is past every page a slot holds
CursorPastSlots == \A t \in Slots : \A p \in SlotPages(t) : p < hdr.cursor

\* C14: recover() absorbs a crash between two stores of allocate, free or
\* unregister_thread: afterwards no page is leaked and the cursor is past every
\* page handed to a thread
C14_CrashAbsorbed == Recovered => NoPageLeaked /\ CursorPastSlots

\* C14's case: recover() has run to its end after a crash inside allocate, and
\* left the region whole
C14_Witness ==
    /\ Recovered
    /\ lastCall.size > 0
    /\ \E t \in Slots : hdr.thread_busy_pages[t] # NULL
    /\ NoPageLeaked
    /\ CursorPastSlots

\* the key has an entry with this status among those the recovery was handed
LoggedAs(k, status) ==
    \E e \in replayed : e.op = "Insert" /\ e.k = k /\ e.status = status

\* a slot of a leaf holds a key without a value or a value without a key
HalfInserted ==
    \E n \in DOMAIN node :
       /\ is_leaf(node, n)
       /\ \E i \in KeySlots : (node[n].keys[i] = NULL) # (node[n].values[i] = NullVal)

\* C15: after a crash during inserts and the recovery of the logger, a search
\* finds every key whose entry was Committed, finds no key whose entry was
\* Uncommitted, and no leaf shows a half-inserted slot
C15_CommittedSurvive ==
    replayed # {} =>
       /\ ~HalfInserted
       /\ \A t \in Threads :
            SearchReturned(t) =>
               /\ LoggedAs(th[t].k, "Committed") => th[t].ret.status = "Found"
               /\ (LoggedAs(th[t].k, "Uncommitted")
                     /\ ~LoggedAs(th[t].k, "Committed")
                     /\ \A e \in LogEntries(regions) : e.k # th[t].k)
                  => th[t].ret.status = "NotFound"

\* C15's case: after the restart a search returns for a key whose entry the
\* recovery saw Committed
C15_Witness ==
    /\ replayed # {}
    /\ SearchReturned(1)
    /\ LoggedAs(th[1].k, "Committed")
    /\ \A e \in LogEntries(regions) : e.k # th[1].k

\* C16: on every reachable tree and every key, wherever the descent without
\* tracing is defined, the tracing descent is defined too and reaches the same
\* leaf, and find_next and find_next_no_tracing give the same child
C16_TracingEquivalent ==
    \A k \in Keys :
       /\ LET quiet == traverse_node_no_tracing(node, root, k)
          IN  ~quiet.undefined => traverse_node(node, root, k) = quiet
       /\ \A n \in DOMAIN node :
            node[n].kind = "Inner" =>
               \A r \in HighkeyCompare(node, n, k) \ {"crash"} :
                  find_next(node, n, k, r) = find_next_no_tracing(node, n, k, r)

\* C16's case: a tree with an inner root in which both descents reach a leaf
C16_Witness ==
    /\ node[root].kind = "Inner"
    /\ \E k \in Keys :
         /\ ~traverse_node_no_tracing(node, root, k).undefined
         /\ traverse_node(node, root, k) = traverse_node_no_tracing(node, root, k)

\* the four inserts of the scenario have returned
S1Inserted ==
    /\ \A i \in DOMAIN S1Keys : stored[S1Keys[i]] # NullVal
    /\ th[1].pc = "idle"

\* the root is an inner node with these keys over leaves with these keys
RootOver(rootKeys, leafKeys) ==
    /\ node[root].kind = "Inner"
    /\ KeysOf(node, root) = rootKeys
    /\ Len(ChildrenOf(node, root)) = Len(leafKeys)
    /\ \A i \in DOMAIN leafKeys :
          LET c == ChildrenOf(node, root)[i]
          IN  node[c].kind = "Leaf" /\ KeysOf(node, c) = leafKeys[i]

\* search("30") came back with the value stored for it
S1SearchOk ==
    (SearchReturned(1) /\ th[1].k = S1Keys[3])
       => th[1].ret.status = "Found" /\ th[1].ret.ptr = stored[S1Keys[3]]

C18_PointerLayout ==
    /\ (/\ pointer.kind = "remote"
        /\ pointer.nodeId \in 0..63
        /\ pointer.address \subseteq 0..47) =>
          /\ is_remote(pointer.bits)
          /\ ~is_local(pointer.bits)
          /\ get_node(pointer.bits) = pointer.nodeId
          /\ BitAnd(pointer.bits, 0..47) = pointer.address
    /\ (pointer.kind = "local" /\ pointer.address \cap {62, 63} = {}) =>
          /\ is_local(pointer.bits)
          /\ ~is_remote(pointer.bits)
          /\ raw_ptr(pointer.bits) = pointer.address

\* C18's case: the largest node id with the largest offset
C18_Witness ==
    /\ pointer.kind = "remote"
    /\ pointer.nodeId = 63
    /\ pointer.address = 0..47
    /\ get_node(pointer.bits) = 63

\* the threads that are between a successful lock or try_lock and their unlock
Holders == {t \in Lockers : lk[t].pc = "holding"}

\* C19: at most one thread holds the VersionLock, and a thread holds it only
\* through a compare-and-swap that found bit 0 clear and set it
C19_MutualExclusion ==
    /\ Cardinality(Holders) <= 1
    /\ \A t \in Holders : lk[t].got % 2 = 0 /\ word = lk[t].got + 1

\* C19's case: one thread holds the lock while another, which loaded the word
\* when it was free, is about to compare-and-swap
C19_Witness ==
    \E t, u \in Lockers :
       /\ t # u
       /\ lk[t].pc = "holding"
       /\ lk[u].pc \in {"lock_cas", "try_cas"}
       /\ lk[u].tmp % 2 = 0

\* C20: the word is odd exactly while a thread holds the lock; it never
\* decreases, and an unlock leaves it 2 above what the holder's lock found
C20_VersionParity ==
    /\ [](VersionLock_is_locked(word) <=> Holders # {})
    /\ [][/\ word' >= word
          /\ \A t \in Lockers :
               (lk[t].pc = "holding" /\ lk'[t].pc = "idle")
                  => word' = lk[t].got + 2]_vars

\* C20's case: a thread is back from unlock after another had already locked
\* and unlocked
C20_Witness ==
    \E t \in Lockers :
       /\ lk[t].ret = "unlocked"
       /\ lk[t].pc = "idle"
       /\ lk[t].got >= 2
       /\ lk[t].rel = lk[t].got + 2
       /\ word = lk[t].rel

\* C21: a reader advances from an inner node to the selected child only if
\* the first version read found the node unlocked and the second read gives
\* the same version; otherwise it retries at the same node
C21_OptimisticDescent ==
    [][\A t \in Threads :
         (th[t].pc = "recheck" /\ th'[t].pc = "descend") =>
            IF ~th[t].odd
               /\ version(node[th[t].cur].version_lock) = th[t].version
            THEN th'[t].cur = th[t].next
            ELSE th'[t].cur = th[t].cur]_vars

\* C21's case: a reader that read the version of a locked inner node is at
\* its second read, and the version has not changed
C21_Witness ==
    \E t \in Threads :
       /\ th[t].pc = "recheck"
       /\ th[t].op = "search"
       /\ th[t].odd
       /\ version(node[th[t].cur].version_lock) = th[t].version

\* the child the text of select_child names: a key slot past the end of the
\* array counts as null
select_child(n, k) ==
    LET used      == {i \in ChildSlots : node[n].children[i] # NULL}
        rightmost == node[n].children[CHOOSE i \in used : \A j \in used : j <= i]
        first     == CHOOSE i \in ChildSlots :
                        /\ i > iNUM_HIGHKEY \/ node[n].keys[i] = NULL
                                            \/ node[n].keys[i] > k
                        /\ \A j \in 1..(i - 1) : /\ node[n].keys[j] # NULL
                                                 /\ node[n].keys[j] <= k
    IN  IF k = node[n].highkey THEN rightmost
        ELSE IF k < node[n].highkey THEN node[n].children[first]
        ELSE IF node[n].right_link # NULL THEN node[n].right_link
        ELSE rightmost

\* C22: find_next returns the rightmost non-null child when the key equals the
\* highkey; children[i] for the smallest i with keys[i] null or keys[i] > key
\* when the key is below the highkey; and above the highkey the right_link if
\* there is one, else the rightmost non-null child
C22_FindNextCases ==
    th[1].pc = "found" => th[1].next = select_child(1, th[1].k)

\* C22's case: a full inner node, the key above every key slot and below the
\* highkey
C22_Witness ==
    /\ th[1].pc = "found"
    /\ \A i \in KeySlots : node[1].keys[i] # NULL /\ node[1].keys[i] < th[1].k
    /\ th[1].k < node[1].highkey
    /\ node[1].right_link # NULL
    /\ th[1].next = node[1].children[iDEGREE]

\* C23: on an inner node whose children hold keys <= keys[i], none of them
\* empty, and whose highkey is its largest key, find_next routes every key
\* stored below the node to the child that holds it
C23_RoutesToHolder ==
    (/\ th[1].pc = "found"
     /\ KeyRange(1)
     /\ \A c \in NodeChildren(1) : Below_(c) # {}
     /\ node[1].highkey = SetMax(Below_(1))
     /\ th[1].k \in Below_(1))
        => th[1].k \in Below_(th[1].next)

\* C23's case: the key is a separator of the node, stored in the child left of
\* it, and not the highkey
C23_Witness ==
    /\ th[1].pc = "found"
    /\ KeyRange(1)
    /\ \A c \in NodeChildren(1) : Below_(c) # {}
    /\ node[1].highkey = SetMax(Below_(1))
    /\ \E i \in KeySlots : /\ node[1].keys[i] = th[1].k
                           /\ th[1].k \in Below_(node[1].children[i])
    /\ th[1].k # node[1].highkey

\* a node's highkey is null exactly when it has no right sibling
HighkeyNullIffRightmost ==
    \A n \in NodeIds : (node[n].highkey = NULL) <=> (node[n].right_link = NULL)

\* no thread is about to call find_next on a node without a highkey
NoCompareWithoutHighkey ==
    \A t \in Threads :
       (th[t].pc = "descend" /\ ~is_leaf(node, th[t].cur))
          => node[th[t].cur].highkey # NULL

\* C24: a node's highkey is null if and only if its right_link is null, and
\* find_next is never called on an inner node whose highkey is null
C24_HighkeyIffNotRightmost ==
    HighkeyNullIffRightmost /\ NoCompareWithoutHighkey

\* C24's case: the root is an inner node without right sibling and a descent
\* stands at it
C24_Witness ==
    \E t \in Threads :
       /\ th[t].pc = "descend"
       /\ th[t].cur = root
       /\ ~is_leaf(node, root)
       /\ node[root].right_link = NULL

\* the keys a reader meets from leaf l on: its slots and those along right_link
ChainKeys(l) ==
    LET c == Chain(l, Len(node)) IN UNION {NodeKeys(c[i]) : i \in DOMAIN c}

InSplitLeaf(t) ==
    th[t].pc \in {"split_place", "split_link", "split_highkey", "split_publish"}

\* C25: at every instant of split_leaf and after it, every key the leaf held
\* before the split is in the old leaf's slots or along its right_link chain,
\* and until right_link is stored the old leaf still holds all of them
C25_SplitLinearized ==
    \A t \in Threads :
       /\ th[t].had \subseteq ChainKeys(th[t].cur)
       /\ InSplitLeaf(t) => th[t].had \subseteq NodeKeys(th[t].cur)

\* C25's case: a split is between two of its steps while a reader scans the
\* old leaf for a key the leaf held
C25_Witness ==
    \E t, u \in Threads :
       /\ InSplitLeaf(t)
       /\ th[u].pc = "scan"
       /\ th[u].cur = th[t].cur
       /\ th[u].k \in th[t].had

\* the nodes whose lock thread t has taken and not yet released
Holding(t) ==
    (IF th[t].pc \in {"moveright", "insert", "split", "split_place", "split_link",
                      "split_highkey", "split_publish", "pushup", "plock",
                      "pmove", "pins", "uhk", "uhklock", "finish"}
     THEN {th[t].cur} ELSE {})
    \cup (IF th[t].pc \in {"pmove", "pins"} THEN {th[t].par} ELSE {})

InsertBack(t) ==
    /\ th[t].pc = "idle"
    /\ th[t].op = "insert"
    /\ th[t].ret.status \in {"Ok", "RepeatInsert", "NoMemory"}

Wants(t) ==
    IF th[t].pc = "lock" THEN th[t].cur
    ELSE IF th[t].pc = "moveright" /\ ~move_right_stays(node, th[t].cur, th[t].k)
    THEN node[th[t].cur].right_link
    ELSE IF th[t].pc = "plock" THEN th[t].par
    ELSE IF th[t].pc = "pmove" /\ ~move_right_stays(node, th[t].par, th[t].skey)
    THEN node[th[t].par].right_link
    ELSE IF th[t].pc = "uhklock" THEN th[t].hpar
    ELSE NULL

Unfinished(t) == th[t].op = "insert" /\ th[t].pc \notin {"idle", "crashed"}

Spins(t) == Unfinished(t) /\ Wants(t) # NULL /\ is_locked(node, Wants(t))

\* n is a right sibling of m: on the right-link chain that starts at m
RightOf(m, n) ==
    LET ch == Chain(m, Len(node))
    IN  n # m /\ \E i \in DOMAIN ch : ch[i] = n

ChainEnds(n) ==
    LET ch == Chain(n, Len(node) + 1)
    IN  \A i, j \in DOMAIN ch : ch[i] = ch[j] => i = j

\* C29: a search that has started can always go on to its return: it has not
\* been stopped inside find_next, the descent stands at a node of the tree
\* and every child find_next can hand it is one, and the right-link chase
\* from the node it stands at comes to an end
C29_SearchReturns ==
    \A t \in Threads :
       th[t].op = "search" =>
          /\ th[t].ret.status # "Crash"
          /\ th[t].pc \in {"descend", "scan"} =>
                /\ th[t].cur \in NodeIds
                /\ ChainEnds(th[t].cur)
          /\ (th[t].pc = "descend" /\ ~is_leaf(node, th[t].cur)) =>
                \A r \in HighkeyCompare(node, th[t].cur, th[t].k) \ {"crash"} :
                   find_next_no_tracing(node, th[t].cur, th[t].k, r) \in NodeIds

\* C29's case: a search of a stored key stands at an inner node, about to
\* call find_next
C29_Witness ==
    \E t \in Threads :
       /\ th[t].op = "search"
       /\ th[t].pc = "descend"
       /\ ~is_leaf(node, th[t].cur)
       /\ stored[th[t].k] # NullVal

\* C30: a pass of update_highkeys' loop body takes the parent's lock and
\* releases it, touches no other node, and stores the parent's highkey only
\* if current is, at that instant, the parent's rightmost non-null child;
\* and the walk stops at the first parent of which current is not the
\* rightmost child
C30_UpdateHighkeysRightmost ==
    [][\A t \in Threads :
          /\ (th[t].pc = "uhklock" /\ th'[t].pc = "uhk") =>
                LET parent  == th[t].hpar
                    current == th[t].hk
                IN  /\ node'[parent].version_lock = node[parent].version_lock + 2
                    /\ \A n \in NodeIds \ {parent} : node'[n] = node[n]
                    /\ parent = node[current].parent
                          => RightmostChild(node, parent) = current
          /\ (/\ th[t].pc = "uhk"
              /\ th'[t] # th[t]
              /\ th[t].hpar # NULL
              /\ RightmostChild(node, th[t].hpar) # th[t].hk)
                => th'[t].pc = "finish"]_vars

\* C30's case: while another insert is in progress update_highkeys has gone
\* up two levels, has been through its locked body at the second, has
\* released that ancestor and stands at it as the next current
C30_Witness ==
    \E t \in Threads :
       /\ th[t].pc = "uhk"
       /\ HeightOf(th[t].hk) >= 2
       /\ node[th[t].hk].version_lock >= 2
       /\ ~is_locked(node, th[t].hk)
       /\ \E u \in Threads \ {t} : Unfinished(u)

\* the pages Page::make_page has made
MadePages == {p \in Pages : p < hdr.cursor}

\* C31: the record count of every page is the number of blocks taken from it
\* and not freed; and a page that free has reset and put on a free list has
\* no such block left
C31_RecordsCountLive ==
    /\ \A p \in MadePages : page[p].records = Cardinality(LiveIn(p))
    /\ \A t \in Slots : \A p \in FreeListOf(t) : LiveIn(p) = {}

\* C31's case: blocks were taken from a page, one of them has been freed and
\* others are still live
C31_Witness ==
    /\ lastCall.op = "free"
    /\ \E p \in MadePages : page[p].records > 1 /\ page[p].cursor > PageHeaderSize

\* two blocks share a byte
Overlap(a, b) ==
    a.pg = b.pg /\ a.off < b.off + b.size /\ b.off < a.off + a.size

\* the threads that hold a slot hold distinct ones
SlotsDistinct ==
    \A c1, c2 \in Clients :
       c1 # c2 /\ client[c1].tid # NoId => client[c1].tid # client[c2].tid

\* C32: while the threads hold distinct slots, no two live blocks overlap, no
\* page is the busy page of two slots, and no busy page is on a free list
C32_BlocksDisjoint ==
    SlotsDistinct =>
       /\ \A a, b \in live : a # b => ~Overlap(a, b)
       /\ \A t, u \in Slots :
             t # u /\ hdr.thread_busy_pages[t] # NULL
                => hdr.thread_busy_pages[t] # hdr.thread_busy_pages[u]
       /\ \A t, u \in Slots :
             hdr.thread_busy_pages[t] # NULL
                => hdr.thread_busy_pages[t] \notin FreeListOf(u) \cup GlobalFreeList

\* C32's case: two threads hold distinct slots and each has taken a block
\* that is still live
C32_Witness ==
    \E c1, c2 \in Clients :
       /\ c1 # c2
       /\ client[c1].tid # NoId /\ client[c2].tid # NoId
       /\ client[c1].tid # client[c2].tid
       /\ \E a, b \in live :
             /\ a.pg = client[c1].ptr.pg /\ a.off = client[c1].ptr.off
             /\ b.pg = client[c2].ptr.pg /\ b.off = client[c2].ptr.off
             /\ a # b

\* C33: what allocate does to the header and the pages, and the address it
\* hands back, are those of the same call made with a null ptr, whatever ptr
\* held on entry
C33_OutParamOverwritten ==
    [][\A c \in Clients, size \in Sizes, stale \in BOOLEAN :
          Allocate(c, size, stale) =>
             LET r0 == Allocator_allocate(hdr, page, client[c].tid, size, NoPtr)
             IN  /\ hdr' = r0.hdr
                 /\ page' = r0.page
                 /\ client'[c].ptr = r0.ptr]_vars

\* C33's case: allocate was called with room for the size left in the region
\* but not in the busy page, and the address the caller is left with is not
\* the block on top of its busy page
C33_Witness ==
    /\ lastCall.op = "allocate"
    /\ lastCall.status = "Done"
    /\ lastCall.size <= uPAGE_SIZE - PageHeaderSize
    /\ LET c == lastCall.c
           b == hdr.thread_busy_pages[client[c].tid]
       IN  /\ client[c].tid # NoId
           /\ client[c].ptr # NoPtr
           /\ b # NULL
           /\ ~out_of_memory(hdr)
           /\ \/ client[c].ptr.pg # b
              \/ client[c].ptr.off + lastCall.size # page[b].cursor

\* allocate was cut between the store of free[t] and the advance of the cursor
GrowthCut(t) ==
    /\ lastCall.op = "crash"
    /\ lastCall.status = "allocate"
    /\ hdr.thread_free_lists[t] = hdr.cursor

\* C34: recover() on a region where allocate was cut between the store
\* free[t] = cursor and the advance of the cursor, when it leaves free[t] as
\* the crash left it, moves the cursor on by the batch allocate moves it by,
\* and every page of free[t] is then below the cursor
C34_GrowthRepaired ==
    [][\A t \in Slots, faults \in BOOLEAN :
          (/\ GrowthCut(t)
           /\ Recover(faults)
           /\ lastCall'.status = "Ok"
           /\ hdr'.thread_free_lists[t] = hdr.thread_free_lists[t]) =>
             /\ hdr'.cursor = hdr.cursor + uPREALLOCATION + 1
             /\ \A p \in ListFrom(page', hdr'.thread_free_lists[t], NumPages) :
                   p < hdr'.cursor]_vars

\* C34's case: recover() has run to its end after a crash inside allocate and
\* a slot has a whole batch on its free list that starts less than a batch
\* below the cursor
C34_Witness ==
    /\ Recovered
    /\ lastCall.size > 0
    /\ \E t \in Slots :
          /\ Cardinality(FreeListOf(t)) = uPREALLOCATION + 1
          /\ hdr.cursor > hdr.thread_free_lists[t]
          /\ hdr.cursor < hdr.thread_free_lists[t] + uPREALLOCATION + 1

\* C35: recover() on an allocator whose last call completed returns Ok and
\* leaves the header and the pages as they were, and a second recover() leaves
\* them as the first did
C35_RecoverCleanIdentity ==
    [][\A faults \in BOOLEAN :
          RecoverClean(faults) =>
             /\ lastCall'.status = "Ok"
             /\ hdr' = hdr
             /\ page' = page
             /\ \A again \in BOOLEAN :
                   LET r == Allocator_recover(hdr', page', again)
                   IN  r.hdr = hdr' /\ r.page = page']_vars

\* C35's case: recover() has run to its end on an allocator that completed
\* calls had given a busy page with a live block
C35_Witness ==
    /\ Recovered
    /\ lastCall.size = 0
    /\ live # {}
    /\ \E t \in Slots : hdr.thread_busy_pages[t] # NULL

\* the pages of a list in the order of their next pointers, n of them at most
RECURSIVE ListSeq(_, _, _)
ListSeq(pg, p, n) ==
    IF p = NULL \/ n = 0 THEN <<>>
    ELSE <<p>> \o ListSeq(pg, pg[p].next, n - 1)

\* the list comes to its end and holds no page twice
Acyclic(pg, p) ==
    LET l == ListSeq(pg, p, NumPages + 1)
    IN  /\ Len(l) <= NumPages
        /\ \A i, j \in DOMAIN l : l[i] = l[j] => i = j

\* the process died inside free(t, ptr), after the store to to_be_freed[t]
FreeCut(t) ==
    /\ lastCall.op = "crash"
    /\ lastCall.status = "free"
    /\ hdr.to_be_freed[t] # NULL

\* C36: recover() on a region where free(t, ptr) was cut leaves to_be_freed[t]
\* null and the list of free[t] acyclic, and the page that was being freed is
\* on that list only if its record count is zero
C36_FreeRepaired ==
    [][\A t \in Slots, faults \in BOOLEAN :
          (FreeCut(t) /\ Recover(faults) /\ lastCall'.status = "Ok") =>
             /\ hdr'.to_be_freed[t] = NULL
             /\ Acyclic(page', hdr'.thread_free_lists[t])
             /\ hdr.to_be_freed[t]
                    \in ListFrom(page', hdr'.thread_free_lists[t], NumPages)
                   => page'[hdr.to_be_freed[t]].records = 0]_vars

\* C36's case: recover() has run to its end after a crash inside the free of
\* the last block of a page, and that page, reset, is on the free list of its
\* slot
C36_Witness ==
    /\ Recovered
    /\ \E t \in Slots, b \in live :
          /\ hdr.to_be_freed[t] = NULL
          /\ b.pg \in FreeListOf(t)
          /\ page[b.pg].records = 0
          /\ page[b.pg].cursor = PageHeaderSize

CtorEntry ==
    LET r == log.regions[ctor.tid] IN r.entries[r.cursor - 1]

\* the log record thread t opened last
OpenEntry(t) == regions[t][Len(regions[t])]

HoldsKey(n, k) == \E i \in KeySlots : node[n].keys[i] = k

=============================================================================
